---- MODULE Spec2Model ----
(***************************************************************************)
(* Transfer orchestrator of ca-agent-skills: sameChainTransfer,            *)
(* crossChainTransfer, recoverStuckTransfer (src/src/core/transfer.ts),    *)
(* managerForwardCall (src/src/core/keystore.ts, the contract.ts section), *)
(* callSendMethod / getTxResult (src/lib/aelf-client.ts), together with    *)
(* the chain they talk to.  One behaviour is one invocation of one of the  *)
(* operations; every await of the code is one step, and the chain mines    *)
(* or fails pending transactions at any moment, also after the invocation  *)
(* has ended.  The keystore operations of src/src/core/keystore.ts         *)
(* (saveKeystore, unlockWallet, lockWallet) are one step each; KeystoreSpec *)
(* runs them in every order, and in Spec the session may save its wallet   *)
(* before it invokes an operation.  SessionSpec is the MCP server: a write  *)
(* tool takes its wallet from requireWallet, and keystore tools run before, *)
(* during and after it.  EncoderSpec runs the encoder's search for the      *)
(* method's input type on every schema.  ApprovalSpec and ChainIdSpec run    *)
(* getApprovalCount and the chain identifier conversion on every input, and *)
(* CacheSpec runs calls into the contract and chain-info caches side by     *)
(* side.                                                                    *)
(*                                                                         *)
(* Error messages are sequences of text fragments, in the order the        *)
(* template literals of the code concatenate them; "the message contains   *)
(* s" is "s is one of the fragments".                                      *)
(***************************************************************************)
EXTENDS Integers, Sequences, FiniteSets, TLC

VARIABLES
    op,              \* the operation invoked: "none", "same", "cross", "recover", "forward"
    mode,            \* "real": lib/aelf-client.js; "mock": the unit tests' module mock of it
    params,          \* the params argument of the invocation
    pc,              \* the await the invocation is suspended at
    step,            \* crossChainTransfer: 0 before Step 1, 1 during Step 1, 2 during Step 2
    call,            \* arguments of the callSendMethod call in progress
    polls,           \* getTxResult: the loop counter i
    curTx,           \* callSendMethod: txId
    step1Result,     \* crossChainTransfer: step1Result
    sends,           \* the send calls made so far (method(params) of callSendMethod)
    outcome,         \* what the invocation returned or threw
    chain,           \* the transactions the node accepted, with their status
    balance,         \* token balances on the source chain; "BRIDGE" is what left through
                     \* CrossChainTransfer; the manager may hold tokens an earlier run stranded
    chainInfoCache,  \* account.ts chainInfoCache holds the list for config.apiUrl
    aelfInstanceCache, \* aelf-client.ts aelfInstanceCache: the rpcUrls it has an instance for
    contractCache,   \* aelf-client.ts contractCache: the keys it has a handle for
    requests,        \* the network calls issued so far, in order, other than getTxResult's
                     \* status queries, which polls counts
    returns,         \* the results callSendMethod resolved with, in order
    observed,        \* the MINED and FAILED statuses getTxResult's queries have returned
    unlockedState,   \* keystore.ts unlockedState (the Unlocked-Wallet Slot)
    files,           \* the keystore file of each network, NoFile when there is none
    ksLog,           \* the keystore operations performed so far, with what they left
    wallet,          \* the wallet argument of the invocation
    env,             \* process.env.PORTKEY_PRIVATE_KEY, "" when it is not set
    root,            \* encodeManagerForwardCallParams: root.nestedArray of the schema fetched
    inputType,       \* encodeManagerForwardCallParams: inputType after the search
    nGuardians,      \* getApprovalCount: its argument guardianCount
    approvalCount,   \* getApprovalCount: <<what it returned>>, <<>> before the call
    idString,    \* chainIdConvertor: the identifier converted, character by character
    chainIdNum,      \* chainIdConvertor: <<base58ToChainId(idString)>>, <<>> before the call
    chainIdBack,     \* chainIdConvertor: <<chainIdToBase58(chainIdNum)>>, <<>> before the call
    contractHandles, \* aelf-client.ts contractCache: the handle stored under each key
    chainLists,      \* account.ts chainInfoCache: the list stored under each apiUrl
    callers,         \* the calls of getContractInstance and getChainInfo in progress
    nextId,          \* the handles and lists created so far
    cacheLog,        \* the calls that ended and the cache clears, in order
    toolNetwork      \* the network argument of the write tool the session invokes

keystoreVars == <<unlockedState, files, ksLog>>

encoderVars == <<root, inputType>>

approvalVars == <<nGuardians, approvalCount>>

chainIdVars == <<idString, chainIdNum, chainIdBack>>

cacheVars == <<contractHandles, chainLists, callers, nextId, cacheLog>>

\* what a call into the caches leaves alone
besideCacheVars == <<op, mode, params, pc, step, call, polls, curTx, step1Result, sends,
                     outcome, chain, balance, chainInfoCache, aelfInstanceCache,
                     contractCache, requests, returns, observed, unlockedState, files,
                     ksLog, wallet, env, root, inputType, approvalVars, chainIdVars,
                     toolNetwork>>

utilVars == <<approvalVars, chainIdVars, cacheVars, toolNetwork>>

transferVars == <<op, mode, params, pc, step, call, polls, curTx, step1Result, sends,
                  outcome, chain, balance, chainInfoCache, aelfInstanceCache,
                  contractCache, requests, returns, observed, wallet, env, root,
                  inputType, utilVars>>

vars == <<op, mode, params, pc, step, call, polls, curTx, step1Result, sends,
          outcome, chain, balance, chainInfoCache, aelfInstanceCache, contractCache,
          requests, returns, observed, unlockedState, files, ksLog, wallet, env, root,
          inputType, utilVars>>

(***************************************************************************)
(* Bounds and program constants                                            *)
(***************************************************************************)
InitialFunds == 2

StrandedFunds == 1

MaxKsOps == 3
\* the most entries of root.nestedArray, and of the nestedArray of an entry
MaxServices == 2
MaxNested == 2
\* the tasks that call getContractInstance and getChainInfo side by side
MaxCallers == 2
\* the calls and cache clears of one behaviour
MaxCacheOps == 4
\* the longest chain identifier converted
MaxIdLen == 4
\* the largest guardian count getApprovalCount is called with
MaxGuardians == 60

TX_RESULT_MAX_RETRIES == 20

(***************************************************************************)
(* Input domains                                                           *)
(***************************************************************************)
WalletAddress == "ELF_wallet"
CaAddress == "ELF_ca_AELF"
Recipient == "ELF_to"
\* the address of the second manager key
SecondWalletAddress == "ELF_wallet_2"
Accounts == {CaAddress, WalletAddress, SecondWalletAddress, Recipient, "BRIDGE"}

CaHashes == {"", "hash"}
TokenContracts == {"", "TOKEN"}
Symbols == {"", "ELF"}
Recipients == {"", Recipient}
Amounts == {"", "1", "100"}
ChainIds == {"", "AELF", "tDVV", "tDVW"}
ToChainIds == {"", "tDVV"}
CaAddresses == {"", CaAddress}
Memos == {"", "memo"}
IssueChainIds == {0, 9992731}
MethodNames == {"", "Transfer"}
Modes == {"real", "mock"}

\* the chain's reading of an amount string
AmountValue(a) == IF a = "1" THEN 1 ELSE IF a = "100" THEN 100 ELSE 0

\* the holder record the CA contract keeps for a caHash
CaAddressOf(caHash) == CaAddress

TxIds == <<"tx1", "tx2", "tx3">>

NoParams ==
    [caHash |-> "", tokenContractAddress |-> "", symbol |-> "", to |-> "",
     amount |-> "", chainId |-> "", toChainId |-> "", caAddress |-> "",
     memo |-> "", issueChainId |-> 0, contractAddress |-> "", methodName |-> ""]

NoCall ==
    [rpc |-> "", contract |-> "", method |-> "", signer |-> "", caHash |-> "",
     innerContract |-> "", innerMethod |-> "", to |-> "", symbol |-> "",
     amount |-> "", memo |-> "", toChainId |-> 0, issueChainId |-> 0]

NoResult == [set |-> FALSE, transactionId |-> "", Status |-> "", Error |-> ""]

NoOutcome == [kind |-> "none", transactionId |-> "", status |-> "", msg |-> <<>>]

(***************************************************************************)
(* Messages                                                                *)
(***************************************************************************)
Contains(msg, s) == \E i \in 1..Len(msg) : msg[i] = s

\* `${name} is required`
Required(name) == <<name, " is required">>

\* first non-empty of a and b: a || b
OrElse(a, b) == IF a # "" THEN a ELSE b

\* `Chain "${chainId}" not found. Available: ${chains.map(...).join(', ')}`
ChainNotFoundMsg(chainId) == <<"Chain \"", chainId, "\" not found. Available: ", "AELF, tDVV">>

\* `Cross-chain step 1 failed (transfer to manager): ${Error || Status}`
Step1FailedMsg(res) ==
    <<"Cross-chain ", "step 1", " failed (transfer to manager): ", OrElse(res.Error, res.Status)>>

\* the recovery message naming the final recipient where the manager belongs
RecoveryMsgNamesRecipient(inner, p, w, r1) ==
    <<"Cross-chain step 2 failed: ">> \o inner \o
    <<"\n\n", "RECOVERY NEEDED", ": ", p.amount, " ", p.symbol,
      " is now on Manager address (", p.to,
      "), not the CA wallet.\n",
      "Recovery params: { ",
      "managerAddress: ", p.to,
      "tokenContractAddress: ", p.tokenContractAddress,
      "symbol: ", p.symbol,
      "amount: ", p.amount,
      "chainId: ", p.chainId,
      "caHash: ", p.caHash,
      "step1TxId: ", r1.transactionId, " }">>

\* the message of the error thrown by the catch block of crossChainTransfer
RecoveryMsg(inner, p, w, r1) ==
    <<"Cross-chain step 2 failed: ">> \o inner \o
    <<"\n\n", "RECOVERY NEEDED", ": ", p.amount, " ", p.symbol,
      " is now on Manager address (", w,
      "), not the CA wallet. Use the \"recoverStuckTransfer\" tool to transfer tokens back to the CA, or retry the cross-chain transfer manually.\n",
      "Recovery params: { ",
      "managerAddress: ", w,
      "tokenContractAddress: ", p.tokenContractAddress,
      "symbol: ", p.symbol,
      "amount: ", p.amount,
      "chainId: ", p.chainId,
      "caHash: ", p.caHash,
      "step1TxId: ", r1.transactionId, " }">>

\* `Contract method "${methodName}" not found at ${contractAddress}`
MethodNotFoundMsg(c) == <<"Contract method \"", c.method, "\" not found at ", c.contract>>

\* `Send call ${methodName} failed: ${JSON.stringify(sendResult.error)}`
SendFailedMsg(c) == <<"Send call ", c.method, " failed: ", "{node error}">>

\* `Send call ${methodName} did not return a TransactionId`
NoTransactionIdMsg(c) == <<"Send call ", c.method, " did not return a TransactionId">>

\* `Transaction ${txId} FAILED: ${result.Error || 'Unknown error'}`
TxFailedMsg(txId, err) == <<"Transaction ", txId, " ", "FAILED", ": ", OrElse(err, "Unknown error")>>

\* the error after the last attempt worded as the FAILED error is
NotConfirmedWordedAsFailed(txId, maxRetries) ==
    <<"Transaction ", txId, " ", "FAILED", ": ", "not confirmed">>

\* `Transaction ${txId} not confirmed after ${maxRetries} retries`
NotConfirmedMsg(txId, maxRetries) ==
    <<"Transaction ", txId, " not confirmed after ", ToString(maxRetries), " retries">>

(***************************************************************************)
(* Validation: the first missing field's message, <<>> when none is missing *)
(***************************************************************************)
ValidateSameChain(p) ==
    IF p.caHash = "" THEN Required("caHash")
    ELSE IF p.tokenContractAddress = "" THEN Required("tokenContractAddress")
    ELSE IF p.symbol = "" THEN Required("symbol")
    ELSE IF p.to = "" THEN Required("to address")
    ELSE IF p.amount = "" THEN Required("amount")
    ELSE IF p.chainId = "" THEN Required("chainId")
    ELSE <<>>

ValidateCrossChain(p) ==
    IF p.caHash = "" THEN Required("caHash")
    ELSE IF p.tokenContractAddress = "" THEN Required("tokenContractAddress")
    ELSE IF p.symbol = "" THEN Required("symbol")
    ELSE IF p.to = "" THEN Required("to address")
    ELSE IF p.amount = "" THEN Required("amount")
    ELSE IF p.chainId = "" THEN Required("source chainId")
    ELSE IF p.toChainId = "" THEN Required("toChainId")
    ELSE <<>>

ValidateRecover(p) ==
    IF p.tokenContractAddress = "" THEN Required("tokenContractAddress")
    ELSE IF p.symbol = "" THEN Required("symbol")
    ELSE IF p.amount = "" THEN Required("amount")
    ELSE IF p.caAddress = "" THEN Required("caAddress")
    ELSE IF p.chainId = "" THEN Required("chainId")
    ELSE <<>>

\* managerForwardCall without its check of methodName
ValidateForwardSkipsMethodName(f) ==
    IF f.caHash = "" THEN Required("caHash")
    ELSE IF f.contractAddress = "" THEN Required("contractAddress")
    ELSE IF f.chainId = "" THEN Required("chainId")
    ELSE <<>>

ValidateForward(f) ==
    IF f.caHash = "" THEN Required("caHash")
    ELSE IF f.contractAddress = "" THEN Required("contractAddress")
    ELSE IF f.methodName = "" THEN Required("methodName")
    ELSE IF f.chainId = "" THEN Required("chainId")
    ELSE <<>>

(***************************************************************************)
(* Chain descriptors and chain-id numbers                                  *)
(***************************************************************************)
KnownChains == {"AELF", "tDVV"}

\* the item of the chains list whose chainId is the given one
ChainInfoOf(chainId) ==
    [chainId |-> chainId,
     endPoint |-> IF chainId = "AELF" THEN "https://aelf-rpc" ELSE "https://tdvv-rpc",
     caContractAddress |-> IF chainId = "AELF" THEN "CA_AELF" ELSE "CA_tDVV"]

\* the alphabet of bs58, digit 0 first
BASE58 ==
    <<"1", "2", "3", "4", "5", "6", "7", "8", "9",
      "A", "B", "C", "D", "E", "F", "G", "H", "J", "K", "L", "M", "N", "P", "Q", "R", "S",
      "T", "U", "V", "W", "X", "Y", "Z",
      "a", "b", "c", "d", "e", "f", "g", "h", "i", "j", "k", "m", "n", "o", "p", "q", "r",
      "s", "t", "u", "v", "w", "x", "y", "z">>

\* bs58.decode: a zero byte for each leading "1", then the number the remaining
\* digits spell, most significant byte first and without leading zero bytes
Bs58Decode(base58String) ==
    LET Digit(c) == (CHOOSE i \in 1..Len(BASE58) : BASE58[i] = c) - 1
        RECURSIVE Zeroes(_)
        Zeroes(i) == IF i <= Len(base58String) /\ base58String[i] = "1"
                     THEN Zeroes(i + 1) ELSE i - 1
        RECURSIVE Value(_, _)
        Value(i, acc) == IF i > Len(base58String) THEN acc
                         ELSE Value(i + 1, acc * Len(BASE58) + Digit(base58String[i]))
        RECURSIVE Bytes(_)
        Bytes(v) == IF v = 0 THEN <<>> ELSE Bytes(v \div 256) \o <<v % 256>>
    IN  [i \in 1..Zeroes(1) |-> 0] \o Bytes(Value(1, 0))

\* bs58.encode: a "1" for each leading zero byte, then the digits of the number
\* the remaining bytes spell
Bs58Encode(bytes) ==
    LET RECURSIVE Zeroes(_)
        Zeroes(i) == IF i <= Len(bytes) /\ bytes[i] = 0 THEN Zeroes(i + 1) ELSE i - 1
        RECURSIVE Value(_, _)
        Value(i, acc) == IF i > Len(bytes) THEN acc ELSE Value(i + 1, acc * 256 + bytes[i])
        RECURSIVE Digits(_)
        Digits(v) == IF v = 0 THEN <<>>
                     ELSE Digits(v \div Len(BASE58)) \o <<BASE58[(v % Len(BASE58)) + 1]>>
    IN  [i \in 1..Zeroes(1) |-> "1"] \o Digits(Value(1, 0))

\* Buffer.concat([bytes], totalLength): cut or zero-filled to totalLength
BufferConcat(bytes, totalLength) ==
    [i \in 1..totalLength |-> IF i <= Len(bytes) THEN bytes[i] ELSE 0]

\* the four bytes read most significant first
Base58ToChainIdBigEndian(base58String) ==
    LET b == BufferConcat(Bs58Decode(base58String), 4)
        low == (b[2] * 256 + b[3]) * 256 + b[4]
    IN  (IF b[1] >= 128 THEN b[1] - 256 ELSE b[1]) * 16777216 + low

\* AElf.utils.chainIdConvertor.base58ToChainId:
\* Buffer.concat([bs58.decode(base58String)], 4).readInt32LE(0); the top byte
\* carries the sign
Base58ToChainId(base58String) ==
    LET b == BufferConcat(Bs58Decode(base58String), 4)
        low == (b[3] * 256 + b[2]) * 256 + b[1]
    IN  (IF b[4] >= 128 THEN b[4] - 256 ELSE b[4]) * 16777216 + low

\* AElf.utils.chainIdConvertor.chainIdToBase58: writeInt32LE of the number
\* written as a hexadecimal literal, the first three bytes encoded; the literal
\* of a negative number is no number, and the bytes written are zero
ChainIdToBase58(n) ==
    LET u == IF n < 0 THEN 0 ELSE n
        b == <<u % 256, (u \div 256) % 256, (u \div 65536) % 256, (u \div 16777216) % 256>>
    IN  Bs58Encode(BufferConcat(b, 3))

\* a chain identifier character by character
Spelling(chainId) ==
    IF chainId = "AELF" THEN <<"A", "E", "L", "F">>
    ELSE IF chainId = "tDVV" THEN <<"t", "D", "V", "V">>
    ELSE IF chainId = "tDVW" THEN <<"t", "D", "V", "W">>
    ELSE <<>>

\* chainIdToNum
ChainIdToNum(chainId) == Base58ToChainId(Spelling(chainId))

\* config.apiUrl and the path getChainInfo requests
ApiUrl == "https://api"

ChainsInfoPath == "/api/app/search/chainsinfoindex"

\* a network call: its kind, the endpoint it goes to, and what it asks for
Request(kind, rpc, target) == [kind |-> kind, rpc |-> rpc, target |-> target]

\* a cache key that leaves the signer out
ContractKeyWithoutSigner(c) == <<c.rpc, c.contract, "">>

\* getContractInstance's cache key `${rpcUrl}|${contractAddress}|${wallet.address}`
ContractKey(c) == <<c.rpc, c.contract, c.signer>>

\* NETWORK_DEFAULTS.testnet.apiUrl
TestnetApiUrl == "https://api-testnet"

\* getConfig({ network })
GetConfig(network) ==
    [network |-> network, apiUrl |-> IF network = "testnet" THEN TestnetApiUrl ELSE ApiUrl]

ApiUrls == {ApiUrl, TestnetApiUrl}

\* the keys getContractInstance is called with: one contract of one endpoint,
\* with either signer
CacheKeys ==
    {ContractKey([rpc |-> ChainInfoOf("AELF").endPoint,
                  contract |-> ChainInfoOf("AELF").caContractAddress,
                  signer |-> a]) : a \in {WalletAddress, SecondWalletAddress}}

\* the logical tasks that call into the caches
Callers == 1..MaxCallers

\* no handle, no list
NoHandle == [id |-> 0, key |-> <<>>]

\* a caller that is in no call
NoCaller == [fn |-> "", key |-> <<>>, since |-> 0]

(***************************************************************************)
(* The calls the operations construct                                      *)
(***************************************************************************)
\* sameChainTransfer forwarding the Transfer without the caller's memo
SameChainForwardDropsMemo(p) ==
    [caHash |-> p.caHash, contractAddress |-> p.tokenContractAddress,
     methodName |-> "Transfer", symbol |-> p.symbol, to |-> p.to,
     amount |-> p.amount, memo |-> "", chainId |-> p.chainId]

\* sameChainTransfer's managerForwardCall params
SameChainForward(p) ==
    [caHash |-> p.caHash, contractAddress |-> p.tokenContractAddress,
     methodName |-> "Transfer", symbol |-> p.symbol, to |-> p.to,
     amount |-> p.amount, memo |-> OrElse(p.memo, ""), chainId |-> p.chainId]

\* Step 1 forwarding the Transfer straight to the final recipient
Step1ForwardToRecipient(p, w) ==
    [caHash |-> p.caHash, contractAddress |-> p.tokenContractAddress,
     methodName |-> "Transfer", symbol |-> p.symbol, to |-> p.to,
     amount |-> p.amount, memo |-> OrElse(p.memo, ""), chainId |-> p.chainId]

\* crossChainTransfer Step 1's managerForwardCall params
Step1Forward(p, w) ==
    [caHash |-> p.caHash, contractAddress |-> p.tokenContractAddress,
     methodName |-> "Transfer", symbol |-> p.symbol, to |-> w,
     amount |-> p.amount, memo |-> OrElse(p.memo, ""), chainId |-> p.chainId]

\* the params a direct caller hands to managerForwardCall
DirectForward(p) ==
    [caHash |-> p.caHash, contractAddress |-> p.contractAddress,
     methodName |-> p.methodName, symbol |-> p.symbol, to |-> p.to,
     amount |-> p.amount, memo |-> p.memo, chainId |-> p.chainId]

\* managerForwardCall sending to the target contract instead of the CA contract
ForwardSendToTarget(ci, w, f) ==
    [rpc |-> ci.endPoint, contract |-> f.contractAddress,
     method |-> "ManagerForwardCall", signer |-> w, caHash |-> f.caHash,
     innerContract |-> f.contractAddress, innerMethod |-> f.methodName,
     to |-> f.to, symbol |-> f.symbol, amount |-> f.amount, memo |-> f.memo,
     toChainId |-> 0, issueChainId |-> 0]

\* managerForwardCall's callSendMethod call
ForwardSend(ci, w, f) ==
    [rpc |-> ci.endPoint, contract |-> ci.caContractAddress,
     method |-> "ManagerForwardCall", signer |-> w, caHash |-> f.caHash,
     innerContract |-> f.contractAddress, innerMethod |-> f.methodName,
     to |-> f.to, symbol |-> f.symbol, amount |-> f.amount, memo |-> f.memo,
     toChainId |-> 0, issueChainId |-> 0]

\* Step 2 signed by whatever wallet the slot holds when Step 2 begins
Step2SendBySlotWallet(ci, w, p) ==
    [rpc |-> ci.endPoint, contract |-> p.tokenContractAddress,
     method |-> "CrossChainTransfer", signer |-> unlockedState.address, caHash |-> "",
     innerContract |-> "", innerMethod |-> "",
     to |-> p.to, symbol |-> p.symbol, amount |-> p.amount,
     memo |-> OrElse(p.memo, ""),
     toChainId |-> ChainIdToNum(p.toChainId),
     issueChainId |-> IF p.issueChainId # 0 THEN p.issueChainId
                      ELSE ChainIdToNum(p.chainId)]

\* crossChainTransfer Step 2's callSendMethod call
Step2Send(ci, w, p) ==
    [rpc |-> ci.endPoint, contract |-> p.tokenContractAddress,
     method |-> "CrossChainTransfer", signer |-> w, caHash |-> "",
     innerContract |-> "", innerMethod |-> "",
     to |-> p.to, symbol |-> p.symbol, amount |-> p.amount,
     memo |-> OrElse(p.memo, ""),
     toChainId |-> ChainIdToNum(p.toChainId),
     issueChainId |-> IF p.issueChainId # 0 THEN p.issueChainId
                      ELSE ChainIdToNum(p.chainId)]

\* the recovery Transfer addressed to the manager itself
RecoverSendToManager(ci, w, p) ==
    [rpc |-> ci.endPoint, contract |-> p.tokenContractAddress,
     method |-> "Transfer", signer |-> w, caHash |-> "",
     innerContract |-> "", innerMethod |-> "",
     to |-> w, symbol |-> p.symbol, amount |-> p.amount,
     memo |-> OrElse(p.memo, "recover stuck cross-chain transfer"),
     toChainId |-> 0, issueChainId |-> 0]

\* recoverStuckTransfer's callSendMethod call
RecoverSend(ci, w, p) ==
    [rpc |-> ci.endPoint, contract |-> p.tokenContractAddress,
     method |-> "Transfer", signer |-> w, caHash |-> "",
     innerContract |-> "", innerMethod |-> "",
     to |-> p.caAddress, symbol |-> p.symbol, amount |-> p.amount,
     memo |-> OrElse(p.memo, "recover stuck cross-chain transfer"),
     toChainId |-> 0, issueChainId |-> 0]

\* the managerForwardCall params of the invocation in progress
ForwardParams ==
    IF op = "same" THEN SameChainForward(params)
    ELSE IF op = "cross" THEN Step1Forward(params, wallet.address)
    ELSE DirectForward(params)

(***************************************************************************)
(* How an invocation ends, and what follows the return of callSendMethod   *)
(***************************************************************************)
\* the invocation rejects with Error(msg)
Fail(msg) ==
    /\ outcome' = [kind |-> "error", transactionId |-> "", status |-> "", msg |-> msg]
    /\ pc' = "done"
    /\ UNCHANGED <<step, call, step1Result>>

\* the invocation resolves with { transactionId, status }
Return(res) ==
    /\ outcome' = [kind |-> "ok", transactionId |-> res.transactionId,
                   status |-> res.Status, msg |-> <<>>]
    /\ pc' = "done"
    /\ UNCHANGED <<step, call, step1Result>>

\* a check for 'FAILED' alone, letting every other status through
Step1MinedOnlyChecksFailed(res) == res.Status # "FAILED"

\* step1Result.data.Status !== 'MINED' is false
Step1Mined(res) == res.Status = "MINED"

\* crossChainTransfer returning Step 1's transaction id with Step 2's status
CrossChainResultOfStep1(r1, r2) == [r2 EXCEPT !.transactionId = r1.transactionId]

\* what crossChainTransfer returns from step1Result r1 and crossChainResult r2
CrossChainResult(r1, r2) == r2

\* callSendMethod (under managerForwardCall or directly) resolved with res
SendReturn(res) ==
    /\ returns' = Append(returns, res)
    /\ IF op = "cross" /\ step = 1
       THEN /\ step1Result' = [set |-> TRUE, transactionId |-> res.transactionId,
                               Status |-> res.Status, Error |-> res.Error]
            /\ IF ~Step1Mined(res)
               THEN /\ outcome' = [kind |-> "error", transactionId |-> "", status |-> "",
                                   msg |-> Step1FailedMsg(res)]
                    /\ pc' = "done"
                    /\ UNCHANGED <<step, call>>
               ELSE /\ step' = 2
                    /\ call' = Step2Send(ChainInfoOf(params.chainId), wallet.address, params)
                    /\ pc' = "send_contract"
                    /\ UNCHANGED outcome
       ELSE IF op = "cross"
       THEN Return(CrossChainResult(step1Result, res))
       ELSE Return(res)

\* a catch block that submits Step 2 again before giving up
SendThrowRetriesStep2(err) ==
    IF op = "cross" /\ step = 2 /\ Len(sends) < 3
    THEN /\ pc' = "send_contract"
         /\ UNCHANGED <<step, call, step1Result, outcome>>
    ELSE Fail(err)

\* callSendMethod (under managerForwardCall or directly) rejected with Error(err)
SendThrow(err) ==
    IF op = "cross" /\ step = 2
    THEN Fail(RecoveryMsg(err, params, wallet.address, step1Result))
    ELSE Fail(err)

(***************************************************************************)
(* The keystore (src/src/core/keystore.ts): the files on disk, the         *)
(* Unlocked-Wallet Slot, and the operations on them.  Each operation is    *)
(* synchronous, so each is one step.                                       *)
(***************************************************************************)
ALLOWED_NETWORKS == <<"mainnet", "testnet">>

Networks == {ALLOWED_NETWORKS[i] : i \in 1..Len(ALLOWED_NETWORKS)}

\* 0o600
FILE_MODE == 384

\* 0o644: the mode of a file that fs.writeFileSync creates when no mode is given
DEFAULT_FILE_MODE == 420

\* null, where the code has it
Null == "<null>"

\* unlockedState = null
NoWallet ==
    [occupied |-> FALSE, address |-> "", privateKey |-> "", caHash |-> "",
     caAddress |-> "", originChainId |-> "", network |-> ""]

\* fs.existsSync(filePath) is false
NoFile ==
    [exists |-> FALSE, json |-> FALSE, caHash |-> "", caAddress |-> "", originChainId |-> "",
     keystore |-> [sealedWith |-> "", privateKey |-> "", mnemonic |-> "", address |-> ""],
     mode |-> 0]

\* a file at the keystore path that saveKeystore did not write: its content
\* ('not-json') does not parse, its mode is the default one
ForeignFile == [NoFile EXCEPT !.exists = TRUE, !.mode = DEFAULT_FILE_MODE]

NoKsParams ==
    [password |-> "", privateKey |-> "", mnemonic |-> "", caHash |-> "",
     caAddress |-> "", originChainId |-> "", network |-> ""]

\* AElf.wallet.getWalletByPrivateKey(privateKey).address
AddressOfKey(privateKey) ==
    IF privateKey = "pk1" THEN WalletAddress
    ELSE IF privateKey = "pk2" THEN SecondWalletAddress
    ELSE ""

\* a keystore object that holds the private key and the mnemonic as given
GetKeystoreInTheClear(privateKey, mnemonic, address, password) ==
    [sealedWith |-> "", privateKey |-> privateKey, mnemonic |-> mnemonic,
     address |-> address]

\* AElf.wallet.getWalletByPrivateKey(privateKey)
GetWalletByPrivateKey(privateKey) ==
    [privateKey |-> privateKey, address |-> AddressOfKey(privateKey)]

\* no wallet
NoSigner == [privateKey |-> "", address |-> ""]

\* the wallet a caller of the core functions passes, as the unit tests do
CallerWallet == GetWalletByPrivateKey("pk1")

\* inputType before the search of encodeManagerForwardCallParams has run
Unset == "<unset>"

\* aelf-sdk getKeystore: the wallet sealed under the password
GetKeystore(privateKey, mnemonic, address, password) ==
    [sealedWith |-> password, privateKey |-> privateKey, mnemonic |-> mnemonic,
     address |-> address]

\* aelf-sdk unlockKeystore: the sealed wallet, which only the sealing password opens
KeystoreOpens(keystore, password) == keystore.sealedWith = password

UnlockKeystore(keystore, password) ==
    [privateKey |-> keystore.privateKey, mnemonic |-> keystore.mnemonic,
     address |-> keystore.address]

\* `Invalid network "${network}". Allowed values: ${ALLOWED_NETWORKS.join(', ')}`
InvalidNetworkMsg(network) ==
    <<"Invalid network", " \"", network, "\". Allowed values: ", "mainnet, testnet">>

\* getKeystorePath(network) throws
InvalidNetwork(network) == network \notin Networks

\* `No keystore found for network "${network}". Expected at: ... Use portkey_save_keystore first.`
NoKeystoreFoundMsg(network) ==
    <<"No keystore found", " for network \"", network,
      "\". Expected at: ", "~/.portkey/ca/", network, ".keystore.json",
      ". Use portkey_save_keystore first.">>

\* unlockWallet answering a wrong password the way it answers a missing file
WrongPasswordReportedAsNotFound == {NoKeystoreFoundMsg(n) : n \in Networks}

WrongPasswordMsgs ==
    {<<"Failed to decrypt keystore. Wrong password?">>, <<"Invalid password">>}

\* the SyntaxError of JSON.parse(raw)
JsonParseMsg == <<"Unexpected token", " in JSON at position ", "1">>

\* originChainId || 'AELF'
OriginOrDefault(originChainId) == OrElse(originChainId, "AELF")

\* saveKeystore without its check of the mnemonic
ValidateSaveSkipsMnemonic(p) ==
    IF p.password = "" THEN Required("password")
    ELSE IF p.privateKey = "" THEN Required("privateKey")
    ELSE IF p.caHash = "" THEN Required("caHash")
    ELSE IF p.caAddress = "" THEN Required("caAddress")
    ELSE IF p.network = "" THEN Required("network")
    ELSE <<>>

\* saveKeystore's validation: the first missing field's message, <<>> when none
ValidateSave(p) ==
    IF p.password = "" THEN Required("password")
    ELSE IF p.privateKey = "" THEN Required("privateKey")
    ELSE IF p.mnemonic = "" THEN Required("mnemonic")
    ELSE IF p.caHash = "" THEN Required("caHash")
    ELSE IF p.caAddress = "" THEN Required("caAddress")
    ELSE IF p.network = "" THEN Required("network")
    ELSE <<>>

\* saveKeystore's fileContent; an existing file keeps the mode it has
FileContent(p, old) ==
    [exists |-> TRUE, json |-> TRUE, caHash |-> p.caHash, caAddress |-> p.caAddress,
     originChainId |-> OriginOrDefault(p.originChainId),
     keystore |-> GetKeystore(p.privateKey, p.mnemonic, AddressOfKey(p.privateKey),
                              p.password),
     mode |-> IF old.exists THEN old.mode ELSE FILE_MODE]

\* saveKeystore recording every wallet as a mainnet wallet
SavedStateOnMainnet(p) ==
    [occupied |-> TRUE, address |-> AddressOfKey(p.privateKey),
     privateKey |-> p.privateKey, caHash |-> p.caHash, caAddress |-> p.caAddress,
     originChainId |-> OriginOrDefault(p.originChainId), network |-> "mainnet"]

\* the unlockedState saveKeystore assigns
SavedState(p) ==
    [occupied |-> TRUE, address |-> AddressOfKey(p.privateKey),
     privateKey |-> p.privateKey, caHash |-> p.caHash, caAddress |-> p.caAddress,
     originChainId |-> OriginOrDefault(p.originChainId), network |-> p.network]

\* unlockWallet taking the origin chain to be AELF instead of reading the file
UnlockedStateOfAelf(file, decrypted, network) ==
    [occupied |-> TRUE, address |-> AddressOfKey(decrypted.privateKey),
     privateKey |-> decrypted.privateKey, caHash |-> file.caHash,
     caAddress |-> file.caAddress, originChainId |-> "AELF",
     network |-> network]

\* unlockWallet keeping the CA of the wallet that was unlocked before
UnlockedStateKeepsOccupantCa(file, decrypted, network) ==
    [occupied |-> TRUE, address |-> AddressOfKey(decrypted.privateKey),
     privateKey |-> decrypted.privateKey,
     caHash |-> IF unlockedState.occupied THEN unlockedState.caHash ELSE file.caHash,
     caAddress |-> IF unlockedState.occupied THEN unlockedState.caAddress
                   ELSE file.caAddress,
     originChainId |-> file.originChainId, network |-> network]

\* the unlockedState unlockWallet assigns from the file and the decrypted wallet
UnlockedState(file, decrypted, network) ==
    [occupied |-> TRUE, address |-> AddressOfKey(decrypted.privateKey),
     privateKey |-> decrypted.privateKey, caHash |-> file.caHash,
     caAddress |-> file.caAddress, originChainId |-> file.originChainId,
     network |-> network]

\* getWalletStatus taking the metadata of whatever file exists
WalletStatusTrustsFile(slot, fs, network) ==
    LET exists == fs[network].exists
        unlocked == slot.occupied /\ slot.network = network
    IN  [exists |-> exists,
         unlocked |-> unlocked,
         caAddress |-> IF exists THEN fs[network].caAddress ELSE Null,
         caHash |-> IF exists THEN fs[network].caHash ELSE Null,
         managerAddress |-> IF unlocked THEN slot.address ELSE Null,
         network |-> network]

\* what getWalletStatus(network) reports when the slot holds slot and the files
\* are fs, for a network getKeystorePath accepts
WalletStatus(slot, fs, network) ==
    LET exists == fs[network].exists
        unlocked == slot.occupied /\ slot.network = network
        parsed == exists /\ fs[network].json
    IN  [exists |-> exists,
         unlocked |-> unlocked,
         caAddress |-> IF parsed THEN fs[network].caAddress ELSE Null,
         caHash |-> IF parsed THEN fs[network].caHash ELSE Null,
         managerAddress |-> IF unlocked THEN slot.address ELSE Null,
         network |-> network]

\* getWalletStatus(network) of the current state; see GetWalletStatusCall for
\* the call, which getKeystorePath makes throw for other networks
GetWalletStatus(network) == WalletStatus(unlockedState, files, network)

\* getUnlockedWallet()
GetUnlockedWallet == unlockedState

\* what a keystore operation leaves in the log
Logged(name, p, ok, msg) ==
    ksLog' = Append(ksLog, [op |-> name, params |-> p, ok |-> ok, msg |-> msg,
                            slot |-> unlockedState', files |-> files'])

\* a keystore operation that drops the unlocked wallet when it throws
KsThrowClearsSlot(name, p, msg) ==
    /\ unlockedState' = NoWallet
    /\ UNCHANGED files
    /\ Logged(name, p, FALSE, msg)

KsThrow(name, p, msg) ==
    /\ UNCHANGED <<unlockedState, files>>
    /\ Logged(name, p, FALSE, msg)

SaveKeystore(p) ==
    /\ Len(ksLog) < MaxKsOps
    /\ UNCHANGED transferVars
    /\ IF ValidateSave(p) # <<>> THEN KsThrow("save", p, ValidateSave(p))
       ELSE IF InvalidNetwork(p.network) THEN KsThrow("save", p, InvalidNetworkMsg(p.network))
       ELSE /\ files' = [files EXCEPT ![p.network] = FileContent(p, @)]
            /\ unlockedState' = SavedState(p)
            /\ Logged("save", p, TRUE, <<"Keystore saved and wallet unlocked. Path: ",
                                         "~/.portkey/ca/", p.network, ".keystore.json">>)

UnlockWallet(password, network) ==
    LET p == [NoKsParams EXCEPT !.password = password, !.network = network]
    IN  /\ Len(ksLog) < MaxKsOps
        /\ UNCHANGED transferVars
        /\ IF password = "" THEN KsThrow("unlock", p, Required("password"))
           ELSE IF InvalidNetwork(network) THEN KsThrow("unlock", p, InvalidNetworkMsg(network))
           ELSE IF ~files[network].exists THEN KsThrow("unlock", p, NoKeystoreFoundMsg(network))
           ELSE IF ~files[network].json THEN KsThrow("unlock", p, JsonParseMsg)
           ELSE IF ~KeystoreOpens(files[network].keystore, password)
           THEN \E msg \in WrongPasswordMsgs : KsThrow("unlock", p, msg)
           ELSE /\ unlockedState' =
                       UnlockedState(files[network],
                                     UnlockKeystore(files[network].keystore, password),
                                     network)
                /\ UNCHANGED files
                /\ Logged("unlock", p, TRUE, <<"Wallet unlocked successfully.">>)

\* a lock that also removes the keystore file of the wallet it locks
LockWalletRemovesFile ==
    /\ Len(ksLog) < MaxKsOps
    /\ UNCHANGED transferVars
    /\ unlockedState' = NoWallet
    /\ files' = [n \in Networks |->
                    IF unlockedState.occupied /\ unlockedState.network = n THEN NoFile
                    ELSE files[n]]
    /\ Logged("lock", NoKsParams, TRUE, <<"Wallet locked. Private key cleared from memory.">>)

LockWallet ==
    /\ Len(ksLog) < MaxKsOps
    /\ UNCHANGED transferVars
    /\ unlockedState' = NoWallet
    /\ UNCHANGED files
    /\ Logged("lock", NoKsParams, TRUE, <<"Wallet locked. Private key cleared from memory.">>)

\* getWalletStatus(network) as a call: it reads, changes nothing, and what it
\* returns is WalletStatus of the state the log entry records
GetWalletStatusCall(network) ==
    LET p == [NoKsParams EXCEPT !.network = network]
    IN  /\ Len(ksLog) < MaxKsOps
        /\ UNCHANGED transferVars
        /\ IF InvalidNetwork(network) THEN KsThrow("status", p, InvalidNetworkMsg(network))
           ELSE /\ UNCHANGED <<unlockedState, files>>
                /\ Logged("status", p, TRUE, <<>>)

\* something other than saveKeystore writes the keystore path of a network, as
\* the unit test of the malformed file does with fs.writeFileSync(path, 'not-json')
WriteForeignFile(network) ==
    /\ Len(ksLog) < MaxKsOps
    /\ UNCHANGED transferVars
    /\ files' = [files EXCEPT ![network] = ForeignFile]
    /\ UNCHANGED unlockedState
    /\ Logged("fswrite", [NoKsParams EXCEPT !.network = network], TRUE, <<>>)

\* the wallets a session saves: a private key with its mnemonic, the CA it manages
\* and the chain the CA was created on
Identities ==
    {[NoKsParams EXCEPT !.privateKey = "pk1", !.mnemonic = "m1", !.caHash = "hash",
                        !.caAddress = CaAddress, !.originChainId = ""],
     [NoKsParams EXCEPT !.privateKey = "pk2", !.mnemonic = "m2", !.caHash = "hash2",
                        !.caAddress = "ELF_ca2_AELF", !.originChainId = "tDVV"]}

Passwords == {"secret", "other"}

\* the fields saveKeystore requires, in the order it checks them
RequiredToSave == {"password", "privateKey", "mnemonic", "caHash", "caAddress", "network"}

\* the wallet the session has saved before it transfers
SessionWallet ==
    [NoKsParams EXCEPT !.password = "secret", !.privateKey = "pk1", !.mnemonic = "m1",
                       !.caHash = "hash", !.caAddress = CaAddress,
                       !.originChainId = "AELF", !.network = "mainnet"]

\* a second wallet, saved over the first
OtherSessionWallet ==
    [SessionWallet EXCEPT !.privateKey = "pk2", !.mnemonic = "m2", !.caHash = "hash2",
                          !.caAddress = "ELF_ca2_AELF"]

SaveKeystoreParams ==
    {[i EXCEPT !.password = pw, !.network = n] :
        i \in Identities, pw \in Passwords, n \in Networks}
    \cup {[i EXCEPT !.password = "secret", !.network = "devnet"] : i \in Identities}
    \cup {[i EXCEPT !.password = "", !.network = "mainnet"] : i \in Identities}
    \cup {[SessionWallet EXCEPT ![f] = ""] : f \in RequiredToSave}

UnlockPasswords == Passwords \cup {""}

UnlockNetworks == Networks \cup {"devnet"}

KeystoreNext ==
    \/ \E p \in SaveKeystoreParams : SaveKeystore(p)
    \/ \E pw \in UnlockPasswords, n \in UnlockNetworks : UnlockWallet(pw, n)
    \/ LockWallet
    \/ \E n \in UnlockNetworks : GetWalletStatusCall(n)
    \/ \E n \in Networks : WriteForeignFile(n)

(***************************************************************************)
(* The chain                                                               *)
(***************************************************************************)
TxIndex(id) == CHOOSE i \in 1..Len(chain) : chain[i].id = id

\* the account a transaction takes the tokens from
Payer(c) == IF c.method = "ManagerForwardCall" THEN CaAddressOf(c.caHash) ELSE c.signer

MovesTokens(c) ==
    \/ c.method \in {"Transfer", "CrossChainTransfer"}
    \/ c.method = "ManagerForwardCall" /\ c.innerMethod = "Transfer"

\* where the tokens of a transaction go
Payee(c) == IF c.method = "CrossChainTransfer" THEN "BRIDGE" ELSE c.to

Execute(bal, c) ==
    IF ~MovesTokens(c) \/ Payer(c) = Payee(c) THEN bal
    ELSE [bal EXCEPT ![Payer(c)] = @ - AmountValue(c.amount),
                     ![Payee(c)] = @ + AmountValue(c.amount)]

\* the process after start-up, apart from its environment and from the schema
\* the node serves
Boot ==
    /\ op = "none"
    /\ mode = "real"
    /\ params = NoParams
    /\ pc = "idle"
    /\ step = 0
    /\ call = NoCall
    /\ polls = 0
    /\ curTx = ""
    /\ step1Result = NoResult
    /\ sends = <<>>
    /\ outcome = NoOutcome
    /\ chain = <<>>
    /\ \E k \in 0..StrandedFunds :
        balance = [a \in Accounts |-> IF a = CaAddress THEN InitialFunds
                                      ELSE IF a = WalletAddress THEN k ELSE 0]
    /\ chainInfoCache = FALSE
    /\ aelfInstanceCache = {}
    /\ contractCache = {}
    /\ requests = <<>>
    /\ returns = <<>>
    /\ observed = {}
    /\ unlockedState = NoWallet
    /\ files = [n \in Networks |-> NoFile]
    /\ ksLog = <<>>
    /\ wallet = NoSigner
    /\ inputType = Unset

\* getApprovalCount has not been called
ApprovalBoot ==
    /\ nGuardians = 0
    /\ approvalCount = <<>>

\* the conversion has not been called
ChainIdBoot ==
    /\ idString = <<>>
    /\ chainIdNum = <<>>
    /\ chainIdBack = <<>>

\* the caches are empty and no call is in progress
CacheBoot ==
    /\ contractHandles = [k \in CacheKeys |-> NoHandle]
    /\ chainLists = [u \in ApiUrls |-> NoHandle]
    /\ callers = [c \in Callers |-> NoCaller]
    /\ nextId = 0
    /\ cacheLog = <<>>

\* the tools' default network
DefaultNetwork == toolNetwork = "mainnet"

\* no helper has been called
UtilBoot == ApprovalBoot /\ ChainIdBoot /\ CacheBoot /\ DefaultNetwork

Init ==
    /\ Boot
    /\ UtilBoot
    /\ env = ""
    /\ root = <<>>

(***************************************************************************)
(* The operations: each starts with its synchronous validation             *)
(***************************************************************************)
Begin(o, m, w, p) ==
    /\ pc = "idle"
    /\ op' = o
    /\ mode' = m
    /\ wallet' = w
    /\ params' = p
    /\ UNCHANGED <<env, encoderVars, utilVars, polls, curTx, sends, chain, balance, chainInfoCache, aelfInstanceCache,
                   contractCache, requests, returns, observed, keystoreVars>>

\* managerForwardCall up to its first await
EnterForward(f, s) ==
    IF ValidateForward(f) # <<>>
    THEN Fail(ValidateForward(f))
    ELSE /\ pc' = "mfc_chaininfo"
         /\ step' = s
         /\ UNCHANGED <<call, step1Result, outcome>>

SameChainTransfer(m, w, p) ==
    /\ Begin("same", m, w, p)
    /\ IF ValidateSameChain(p) # <<>>
       THEN Fail(ValidateSameChain(p))
       ELSE EnterForward(SameChainForward(p), step)

CrossChainTransfer(m, w, p) ==
    /\ Begin("cross", m, w, p)
    /\ IF ValidateCrossChain(p) # <<>>
       THEN Fail(ValidateCrossChain(p))
       ELSE /\ pc' = "cct_chaininfo"
            /\ UNCHANGED <<step, call, step1Result, outcome>>

RecoverStuckTransfer(m, w, p) ==
    /\ Begin("recover", m, w, p)
    /\ IF ValidateRecover(p) # <<>>
       THEN Fail(ValidateRecover(p))
       ELSE /\ pc' = "rst_chaininfo"
            /\ UNCHANGED <<step, call, step1Result, outcome>>

ManagerForwardCall(m, w, p) ==
    /\ Begin("forward", m, w, p)
    /\ EnterForward(DirectForward(p), step)

(***************************************************************************)
(* The awaits                                                              *)
(***************************************************************************)
\* getChainInfoByChainId: getChainInfo (cached per apiUrl) and the find
GetChainInfoByChainId ==
    /\ pc \in {"cct_chaininfo", "mfc_chaininfo", "rst_chaininfo"}
    /\ UNCHANGED <<op, mode, params, wallet, env, encoderVars, utilVars, polls, curTx, sends, chain, balance,
                   aelfInstanceCache, contractCache, returns, observed, keystoreVars>>
    /\ requests' = IF chainInfoCache THEN requests
                   ELSE Append(requests, Request("http", GetConfig(toolNetwork).apiUrl,
                                                 ChainsInfoPath))
    /\ \E http \in {"ok", "throw"} :
        /\ chainInfoCache => http = "ok"
        /\ IF http = "throw"
           THEN Fail(<<"HTTP request failed">>) /\ UNCHANGED chainInfoCache
           ELSE /\ chainInfoCache' = TRUE
                /\ LET id == IF pc = "mfc_chaininfo" THEN ForwardParams.chainId
                             ELSE params.chainId
                   IN  IF id \notin KnownChains
                       THEN Fail(ChainNotFoundMsg(id))
                       ELSE IF pc = "cct_chaininfo"
                       THEN EnterForward(Step1Forward(params, wallet.address), 1)
                       ELSE IF pc = "mfc_chaininfo"
                       THEN /\ pc' = "mfc_encode"
                            /\ UNCHANGED <<step, call, step1Result, outcome>>
                       ELSE /\ call' = RecoverSend(ChainInfoOf(id), wallet.address, params)
                            /\ pc' = "send_contract"
                            /\ UNCHANGED <<step, step1Result, outcome>>

\* encodeManagerForwardCallParams, then managerForwardCall calls callSendMethod
EncodeManagerForwardCallParams ==
    /\ pc = "mfc_encode"
    /\ UNCHANGED <<op, mode, params, wallet, env, encoderVars, utilVars, polls, curTx, sends, chain, balance, chainInfoCache,
                   contractCache, returns, observed, keystoreVars>>
    /\ requests' = Append(requests, Request("encode", ChainInfoOf(ForwardParams.chainId).endPoint,
                                            ForwardParams.contractAddress))
    /\ aelfInstanceCache' = IF mode = "real"
                            THEN aelfInstanceCache \cup {ChainInfoOf(ForwardParams.chainId).endPoint}
                            ELSE aelfInstanceCache
    /\ \E r \in {"ok", "throw"} :
        IF r = "throw"
        THEN Fail(<<"Method \"", ForwardParams.methodName, "\" not found in contract ",
                    ForwardParams.contractAddress>>)
        ELSE /\ call' = ForwardSend(ChainInfoOf(ForwardParams.chainId), wallet.address,
                                    ForwardParams)
             /\ pc' = "send_contract"
             /\ UNCHANGED <<step, step1Result, outcome>>

\* callSendMethod: getContractInstance and the lookup of contract[methodName]
GetContractInstance ==
    /\ mode = "real"
    /\ pc = "send_contract"
    /\ UNCHANGED <<op, mode, params, wallet, env, encoderVars, utilVars, polls, curTx, sends, chain, balance, chainInfoCache,
                   returns, observed, keystoreVars>>
    /\ \E r \in {"ok", "throw", "nomethod"} :
        /\ ContractKey(call) \in contractCache => r # "throw"
        /\ IF ContractKey(call) \in contractCache
           THEN UNCHANGED <<aelfInstanceCache, contractCache, requests>>
           ELSE /\ aelfInstanceCache' = aelfInstanceCache \cup {call.rpc}
                /\ requests' = Append(requests, Request("contractAt", call.rpc, call.contract))
                /\ contractCache' = IF r = "throw" THEN contractCache
                                    ELSE contractCache \cup {ContractKey(call)}
        /\ IF r = "ok"
           THEN /\ pc' = "send_method"
                /\ UNCHANGED <<step, call, step1Result, outcome>>
           ELSE IF r = "throw"
           THEN SendThrow(<<"contractAt request failed">>)
           ELSE SendThrow(MethodNotFoundMsg(call))

\* callSendMethod: method(params), the txId extraction and its two checks.
\* The node accepted the transaction when it answers with a TransactionId and
\* refused it when it answers with an error; a request that throws (the
\* provider's timeout) or an answer without either may or may not have reached it.
SubmitTransaction ==
    /\ mode = "real"
    /\ pc = "send_method"
    /\ Len(chain) < Len(TxIds)
    /\ sends' = Append(sends, call)
    /\ requests' = Append(requests, Request("send", call.rpc, call.contract))
    /\ UNCHANGED <<op, mode, params, wallet, env, encoderVars, utilVars, balance, chainInfoCache, aelfInstanceCache,
                   contractCache, returns, observed, keystoreVars>>
    /\ \E r \in {"txid", "error", "empty", "throw"}, accepted \in BOOLEAN :
        /\ r = "txid" => accepted
        /\ r = "error" => ~accepted
        /\ LET id == TxIds[Len(chain) + 1]
           IN  /\ chain' = IF accepted
                           THEN Append(chain, [id |-> id, status |-> "PENDING",
                                               error |-> "", c |-> call])
                           ELSE chain
               /\ IF r = "txid"
                  THEN /\ curTx' = id
                       /\ polls' = 0
                       /\ pc' = "poll"
                       /\ UNCHANGED <<step, call, step1Result, outcome>>
                  ELSE /\ UNCHANGED <<curTx, polls>>
                       /\ IF r = "error" THEN SendThrow(SendFailedMsg(call))
                          ELSE IF r = "empty" THEN SendThrow(NoTransactionIdMsg(call))
                          ELSE SendThrow(<<"request timeout">>)

\* getTxResult polling on after a FAILED status
PollVerdictFailedRetries(status) == IF status = "MINED" THEN "return" ELSE "retry"

\* getTxResult throwing its FAILED error for every status other than MINED
PollVerdictPendingFails(status) == IF status = "MINED" THEN "return" ELSE "throw"

\* getTxResult without its throw for FAILED: both terminal statuses are returned
PollVerdictReturnsFailed(status) ==
    IF status = "MINED" \/ status = "FAILED" THEN "return" ELSE "retry"

\* getTxResult: what the loop body does with the Status a query returned
PollVerdict(status) ==
    IF status = "MINED" \/ status = "FAILED"
    THEN IF status = "FAILED" THEN "throw" ELSE "return"
    ELSE "retry"

\* getTxResult: one pass of the loop body (query, checks, catch, sleep), and
\* the throw after the loop when that pass was the last
PollTxResult ==
    /\ mode = "real"
    /\ pc = "poll"
    /\ UNCHANGED <<op, mode, params, wallet, env, encoderVars, utilVars, sends, chain, balance, chainInfoCache, contractCache,
                   requests, keystoreVars>>
    /\ aelfInstanceCache' = aelfInstanceCache \cup {call.rpc}
    /\ \E r \in {"result", "throw", "throwFAILED"} :
        LET tx == chain[TxIndex(curTx)]
        IN
          /\ observed' = IF r = "result" /\ tx.status \in {"MINED", "FAILED"}
                         THEN observed \cup {[id |-> curTx, status |-> tx.status]}
                         ELSE observed
          /\ IF r = "result" /\ PollVerdict(tx.status) = "return"
            THEN /\ SendReturn([transactionId |-> curTx, Status |-> tx.status,
                                Error |-> tx.error])
                 /\ polls' = 0 /\ curTx' = ""
            ELSE IF r = "result" /\ PollVerdict(tx.status) = "throw"
            THEN /\ SendThrow(TxFailedMsg(curTx, tx.error))
                 /\ polls' = 0 /\ curTx' = ""
                 /\ UNCHANGED returns
            ELSE IF r = "throwFAILED"
            THEN /\ SendThrow(<<"connect ", "FAILED", " (transport)">>)
                 /\ polls' = 0 /\ curTx' = ""
                 /\ UNCHANGED returns
            ELSE IF polls + 1 < TX_RESULT_MAX_RETRIES
            THEN /\ polls' = polls + 1
                 /\ UNCHANGED <<curTx, pc, step, call, step1Result, outcome, returns>>
            ELSE /\ SendThrow(NotConfirmedMsg(curTx, TX_RESULT_MAX_RETRIES))
                 /\ polls' = 0 /\ curTx' = ""
                 /\ UNCHANGED returns

\* the unit tests' callSendMethodImpl: records the call, resolves or rejects
MockTxIdOf(method) ==
    IF method = "ManagerForwardCall" THEN "step1"
    ELSE IF method = "CrossChainTransfer" THEN "step2"
    ELSE "recover-tx"

MockResults ==
    [transactionId : {MockTxIdOf(call.method)}, Status : {"MINED", "FAILED", "PENDING"},
     Error : {"", "insufficient"}]

MockCallSendMethod ==
    /\ mode = "mock"
    /\ pc = "send_contract"
    /\ sends' = Append(sends, call)
    /\ requests' = Append(requests, Request("send", call.rpc, call.contract))
    /\ UNCHANGED <<op, mode, params, wallet, env, encoderVars, utilVars, polls, curTx, chain, balance, chainInfoCache,
                   aelfInstanceCache, contractCache, observed, keystoreVars>>
    /\ \/ \E res \in MockResults : SendReturn(res)
       \/ SendThrow(<<"rpc timeout">>) /\ UNCHANGED returns

\* the chain includes a pending transaction in a block: MINED
ChainMine(i) ==
    /\ chain[i].status = "PENDING"
    /\ MovesTokens(chain[i].c) =>
        /\ Payee(chain[i].c) \in Accounts
        /\ AmountValue(chain[i].c.amount) > 0
        /\ balance[Payer(chain[i].c)] >= AmountValue(chain[i].c.amount)
    /\ chain' = [chain EXCEPT ![i].status = "MINED"]
    /\ balance' = Execute(balance, chain[i].c)
    /\ UNCHANGED <<op, mode, params, wallet, env, encoderVars, utilVars, pc, step, call, polls, curTx, step1Result, sends,
                   outcome, chainInfoCache, aelfInstanceCache, contractCache, requests,
                   returns, observed, keystoreVars>>

\* the chain includes a pending transaction in a block: FAILED
ChainFail(i, err) ==
    /\ chain[i].status = "PENDING"
    /\ chain' = [chain EXCEPT ![i].status = "FAILED", ![i].error = err]
    /\ UNCHANGED <<op, mode, params, wallet, env, encoderVars, utilVars, pc, step, call, polls, curTx, step1Result, sends,
                   outcome, balance, chainInfoCache, aelfInstanceCache, contractCache,
                   requests, returns, observed, keystoreVars>>

TransferParams ==
    {[NoParams EXCEPT !.caHash = h, !.tokenContractAddress = t, !.symbol = s, !.to = r,
                      !.amount = a, !.chainId = c, !.memo = m] :
        h \in CaHashes, t \in TokenContracts, s \in Symbols, r \in Recipients,
        a \in Amounts, c \in ChainIds, m \in Memos}

CrossChainTransferParams ==
    {[p EXCEPT !.toChainId = t, !.issueChainId = i] :
        p \in TransferParams, t \in ToChainIds, i \in IssueChainIds}

RecoverStuckTransferParams ==
    {[NoParams EXCEPT !.tokenContractAddress = t, !.symbol = s, !.amount = a,
                      !.caAddress = ca, !.chainId = c, !.memo = m] :
        t \in TokenContracts, s \in Symbols, a \in Amounts, ca \in CaAddresses,
        c \in ChainIds, m \in Memos}

\* args: { symbol, to, amount } of a Transfer, or {}
ManagerForwardCallParams ==
    {[NoParams EXCEPT !.caHash = h, !.contractAddress = t, !.methodName = n,
                      !.symbol = IF a = "" THEN "" ELSE "ELF",
                      !.to = IF a = "" THEN "" ELSE Recipient,
                      !.amount = a, !.chainId = c] :
        h \in CaHashes, t \in TokenContracts, n \in MethodNames, a \in Amounts,
        c \in ChainIds}

SetUpWallet == pc = "idle" /\ ksLog = <<>> /\ SaveKeystore(SessionWallet)

Next ==
    \/ SetUpWallet
    \/ \E m \in Modes, p \in TransferParams : SameChainTransfer(m, CallerWallet, p)
    \/ \E m \in Modes, p \in CrossChainTransferParams : CrossChainTransfer(m, CallerWallet, p)
    \/ \E m \in Modes, p \in RecoverStuckTransferParams : RecoverStuckTransfer(m, CallerWallet, p)
    \/ \E m \in Modes, p \in ManagerForwardCallParams : ManagerForwardCall(m, CallerWallet, p)
    \/ GetChainInfoByChainId
    \/ EncodeManagerForwardCallParams
    \/ GetContractInstance
    \/ SubmitTransaction
    \/ PollTxResult
    \/ MockCallSendMethod
    \/ \E i \in 1..Len(chain) : ChainMine(i)
    \/ \E i \in 1..Len(chain), err \in {"", "insufficient"} : ChainFail(i, err)

Spec == Init /\ [][Next]_vars

\* every status query comes back or times out (HttpProvider's 20 s timeout), and
\* the sleep between two queries ends: a pending getTxResult takes its next step
LiveSpec == Spec /\ WF_vars(PollTxResult)

\* the keystore operations alone, in every order
KeystoreSpec == Init /\ [][KeystoreNext]_vars

(***************************************************************************)
(* The MCP server (src/mcp/server.ts as of part_016): the handlers of the    *)
(* write tools take their wallet from requireWallet and call the core       *)
(* function; the handlers are async, so a keystore tool can run while a     *)
(* write tool is suspended at an await                                      *)
(***************************************************************************)
\* the values of PORTKEY_PRIVATE_KEY a server process is started with
EnvKeys == {"", "pk2"}

NoWalletAvailableMsg ==
    <<"Wallet not available. Either use ", "portkey_unlock", " to unlock your keystore, ",
      "or set the ", "PORTKEY_PRIVATE_KEY", " environment variable.">>

\* the wallet of the slot
UnlockedWallet == [privateKey |-> unlockedState.privateKey, address |-> unlockedState.address]

\* requireWallet looking at the environment before the slot
RequireWalletEnvFirst ==
    IF env # "" THEN GetWalletByPrivateKey(env)
    ELSE IF unlockedState.occupied THEN UnlockedWallet
    ELSE NoSigner

\* requireWallet; NoSigner stands for its throw
RequireWallet ==
    IF unlockedState.occupied THEN UnlockedWallet
    ELSE IF env # "" THEN GetWalletByPrivateKey(env)
    ELSE NoSigner

\* the handler's catch of requireWallet's throw: return fail(err)
ToolFail(o, p) ==
    /\ Begin(o, "real", NoSigner, p)
    /\ Fail(NoWalletAvailableMsg)

PortkeyTransfer(p) ==
    IF RequireWallet = NoSigner THEN ToolFail("same", p)
    ELSE SameChainTransfer("real", RequireWallet, p)

PortkeyCrossChainTransfer(p) ==
    IF RequireWallet = NoSigner THEN ToolFail("cross", p)
    ELSE CrossChainTransfer("real", RequireWallet, p)

PortkeyRecoverStuckTransfer(p) ==
    IF RequireWallet = NoSigner THEN ToolFail("recover", p)
    ELSE RecoverStuckTransfer("real", RequireWallet, p)

\* managerForwardCallWithKey(config, wallet.privateKey, params)
PortkeyForwardCall(p) ==
    IF RequireWallet = NoSigner THEN ToolFail("forward", p)
    ELSE ManagerForwardCall("real", GetWalletByPrivateKey(RequireWallet.privateKey), p)

\* the arguments the session gives its write tools
SessionTransfer ==
    [NoParams EXCEPT !.caHash = "hash", !.tokenContractAddress = "TOKEN", !.symbol = "ELF",
                     !.to = Recipient, !.amount = "1", !.chainId = "AELF"]

SessionCrossChainTransfer == [SessionTransfer EXCEPT !.toChainId = "tDVV", !.issueChainId = 9992731]

SessionRecover ==
    [NoParams EXCEPT !.tokenContractAddress = "TOKEN", !.symbol = "ELF", !.amount = "1",
                     !.caAddress = CaAddress, !.chainId = "AELF"]

SessionForwardCall ==
    [NoParams EXCEPT !.caHash = "hash", !.contractAddress = "TOKEN", !.methodName = "Transfer",
                     !.symbol = "ELF", !.to = Recipient, !.amount = "1", !.chainId = "AELF"]

SessionInit ==
    /\ Boot
    /\ ApprovalBoot
    /\ ChainIdBoot
    /\ CacheBoot
    /\ toolNetwork \in Networks
    /\ env \in EnvKeys
    /\ root = <<>>

SessionNext ==
    \/ SaveKeystore(SessionWallet)
    \/ SaveKeystore(OtherSessionWallet)
    \/ UnlockWallet("secret", "mainnet")
    \/ LockWallet
    \/ PortkeyTransfer(SessionTransfer)
    \/ PortkeyCrossChainTransfer(SessionCrossChainTransfer)
    \/ PortkeyRecoverStuckTransfer(SessionRecover)
    \/ PortkeyForwardCall(SessionForwardCall)
    \/ GetChainInfoByChainId
    \/ EncodeManagerForwardCallParams
    \/ GetContractInstance
    \/ SubmitTransaction
    \/ PollTxResult
    \/ \E i \in 1..Len(chain) : ChainMine(i)
    \/ \E i \in 1..Len(chain), err \in {"", "insufficient"} : ChainFail(i, err)

\* one write tool of the server, with keystore tools before, during and after it
SessionSpec == SessionInit /\ [][SessionNext]_vars

(***************************************************************************)
(* encodeManagerForwardCallParams: the search for the method's input type   *)
(* in the schema of the target contract (lib/aelf-client.ts)                *)
(***************************************************************************)
\* the sequences over S of length at most n
SeqsUpTo(S, n) == UNION {[1..k -> S] : k \in 0..n}

\* the request types a schema resolves
InputTypes == {"TransferInput", "ApproveInput"}

\* an entry of the nestedArray of an entry of root.nestedArray: input is the
\* resolvedRequestType of its methods[cleanMethodName], "" when it has no
\* methods, not this method, or the method has no resolved request type;
\* below tells whether an entry of its own nestedArray, at any depth, declares
\* the method (a service in a package a.b.c lies there)
NestedEntries == [input : InputTypes \cup {""}, below : BOOLEAN]

\* an entry of root.nestedArray: a service or a namespace
Entries == [input : InputTypes \cup {""}, nested : SeqsUpTo(NestedEntries, MaxNested)]

\* the values of root.nestedArray
Schemas == SeqsUpTo(Entries, MaxServices)

\* the inner loop: the first nested entry that declares the method sets
\* inputType and ends the inner loop
RECURSIVE ScanNested(_, _, _)
ScanNested(nestedArray, j, found) ==
    IF j > Len(nestedArray) THEN found
    ELSE IF nestedArray[j].input # "" THEN nestedArray[j].input
    ELSE ScanNested(nestedArray, j + 1, found)

\* the outer loop from entry i on, inputType being found so far: an entry that
\* declares the method itself sets inputType and ends the loop; otherwise its
\* nested entries are searched and the loop goes on
RECURSIVE ScanRoot(_, _, _)
ScanRoot(nestedArray, i, found) ==
    IF i > Len(nestedArray) THEN found
    ELSE IF nestedArray[i].input # "" THEN nestedArray[i].input
    ELSE ScanRoot(nestedArray, i + 1, ScanNested(nestedArray[i].nested, 1, found))

\* inputType when the loops have ended; Null makes the encoder throw
FindInputType(nestedArray) == ScanRoot(nestedArray, 1, Null)

\* the search of encodeManagerForwardCallParams on the schema fetched
SearchInputType ==
    /\ inputType = Unset
    /\ inputType' = FindInputType(root)
    /\ UNCHANGED <<op, mode, params, pc, step, call, polls, curTx, step1Result, sends,
                   outcome, chain, balance, chainInfoCache, aelfInstanceCache,
                   contractCache, requests, returns, observed, keystoreVars, wallet, env,
                   root, utilVars>>

EncoderInit ==
    /\ Boot
    /\ balance[WalletAddress] = 0
    /\ UtilBoot
    /\ env = ""
    /\ root \in Schemas

EncoderNext == SearchInputType

\* the encoder's search, on every schema
EncoderSpec == EncoderInit /\ [][EncoderNext]_vars

(***************************************************************************)
(* getApprovalCount: the approvals a guardian operation needs              *)
(* (src/unnamed/part_005)                                                  *)
(***************************************************************************)
\* the threshold moved: three guardians already take the three-fifths rule
GetApprovalCountBelowThree(guardianCount) ==
    IF guardianCount < 3 THEN guardianCount
    ELSE ((guardianCount * 3) \div 5) + 1

\* Math.floor of a non-negative quotient is \div
GetApprovalCount(guardianCount) ==
    IF guardianCount <= 3 THEN guardianCount
    ELSE ((guardianCount * 3) \div 5) + 1

\* one call of getApprovalCount
GetApprovalCountCall ==
    /\ approvalCount = <<>>
    /\ approvalCount' = <<GetApprovalCount(nGuardians)>>
    /\ UNCHANGED <<op, mode, params, pc, step, call, polls, curTx, step1Result, sends,
                   outcome, chain, balance, chainInfoCache, aelfInstanceCache,
                   contractCache, requests, returns, observed, keystoreVars, wallet, env,
                   encoderVars, nGuardians, chainIdVars, cacheVars, toolNetwork>>

ApprovalInit ==
    /\ Boot
    /\ env = ""
    /\ root = <<>>
    /\ nGuardians \in 0..MaxGuardians
    /\ approvalCount = <<>>
    /\ ChainIdBoot
    /\ CacheBoot
    /\ DefaultNetwork

ApprovalNext == GetApprovalCountCall

\* getApprovalCount, on every guardian count
ApprovalSpec == ApprovalInit /\ [][ApprovalNext]_vars

(***************************************************************************)
(* chainIdConvertor: chain identifier to number and back                   *)
(* (src/src/core/transfer.ts, src/__tests__/unit/transfer.test.ts)         *)
(***************************************************************************)
\* type ChainId
CanonicalChainIds == {"AELF", "tDVV", "tDVW"}

\* the characters identifiers are drawn from: those of the canonical ones, and
\* the zero digit
IdChars == {"1", "A", "E", "L", "F", "t", "D", "V", "W"}

\* chainIdToNum(chainId)
ToNumeric ==
    /\ chainIdNum = <<>>
    /\ chainIdNum' = <<Base58ToChainId(idString)>>
    /\ UNCHANGED <<op, mode, params, pc, step, call, polls, curTx, step1Result, sends,
                   outcome, chain, balance, chainInfoCache, aelfInstanceCache,
                   contractCache, requests, returns, observed, keystoreVars, wallet, env,
                   encoderVars, approvalVars, idString, chainIdBack, cacheVars,
                   toolNetwork>>

\* chainIdToBase58 of the number chainIdToNum returned
ToIdentifier ==
    /\ chainIdNum # <<>>
    /\ chainIdBack = <<>>
    /\ chainIdBack' = <<ChainIdToBase58(chainIdNum[1])>>
    /\ UNCHANGED <<op, mode, params, pc, step, call, polls, curTx, step1Result, sends,
                   outcome, chain, balance, chainInfoCache, aelfInstanceCache,
                   contractCache, requests, returns, observed, keystoreVars, wallet, env,
                   encoderVars, approvalVars, idString, chainIdNum, cacheVars,
                   toolNetwork>>

ChainIdInit ==
    /\ Boot
    /\ balance[WalletAddress] = 0
    /\ env = ""
    /\ root = <<>>
    /\ ApprovalBoot
    /\ CacheBoot
    /\ DefaultNetwork
    /\ idString \in SeqsUpTo(IdChars, MaxIdLen)
    /\ chainIdNum = <<>>
    /\ chainIdBack = <<>>

ChainIdNext == ToNumeric \/ ToIdentifier

\* the conversion and its reverse, on every identifier
ChainIdSpec == ChainIdInit /\ [][ChainIdNext]_vars

(***************************************************************************)
(* The caches under calls that overlap: getContractInstance                 *)
(* (lib/aelf-client.ts), getChainInfo and clearChainInfoCache               *)
(* (src/src/core/transfer.ts, the account.ts section).  A call is one step  *)
(* up to its await and one step from it; other calls run in between.        *)
(***************************************************************************)
\* the calls in progress and the operations that ended
CacheOps == Len(cacheLog) + Cardinality({c \in Callers : callers[c] # NoCaller})

\* the entry of cacheLog for a call that ended: what it returned (NoHandle when
\* it threw), whether it created a handle or requested the list, and the
\* length of cacheLog when it began
Ended(fn, key, ret, made, since) ==
    [fn |-> fn, key |-> key, ret |-> ret, made |-> made, since |-> since]

\* getContractInstance up to its await: a key that is cached is returned
GetContractInstanceBegin(c, k) ==
    /\ callers[c] = NoCaller
    /\ CacheOps < MaxCacheOps
    /\ IF contractHandles[k] # NoHandle
       THEN /\ cacheLog' = Append(cacheLog, Ended("contract", k, contractHandles[k], FALSE,
                                                  Len(cacheLog)))
            /\ UNCHANGED callers
       ELSE /\ callers' = [callers EXCEPT ![c] = [fn |-> "contract", key |-> k,
                                                   since |-> Len(cacheLog)]]
            /\ UNCHANGED cacheLog
    /\ UNCHANGED <<contractHandles, chainLists, nextId, besideCacheVars>>

\* contractAt settles: the handle is stored under the key, over whatever is
\* there, and the call returns what is stored; a rejection stores nothing
ContractAt(c) ==
    /\ callers[c].fn = "contract"
    /\ callers' = [callers EXCEPT ![c] = NoCaller]
    /\ \E r \in {"ok", "throw"} :
        IF r = "ok"
        THEN /\ nextId' = nextId + 1
             /\ contractHandles' = [contractHandles EXCEPT
                                       ![callers[c].key] = [id |-> nextId + 1,
                                                            key |-> callers[c].key]]
             /\ cacheLog' = Append(cacheLog, Ended("contract", callers[c].key,
                                                  contractHandles'[callers[c].key], TRUE,
                                                  callers[c].since))
        ELSE /\ cacheLog' = Append(cacheLog, Ended("contract", callers[c].key, NoHandle, TRUE,
                                                  callers[c].since))
             /\ UNCHANGED <<nextId, contractHandles>>
    /\ UNCHANGED <<chainLists, besideCacheVars>>

\* getChainInfo up to its await: a list that is cached is returned
GetChainInfoBegin(c, u) ==
    /\ callers[c] = NoCaller
    /\ CacheOps < MaxCacheOps
    /\ IF chainLists[u] # NoHandle
       THEN /\ cacheLog' = Append(cacheLog, Ended("chaininfo", <<u>>, chainLists[u], FALSE,
                                                  Len(cacheLog)))
            /\ UNCHANGED callers
       ELSE /\ callers' = [callers EXCEPT ![c] = [fn |-> "chaininfo", key |-> <<u>>,
                                                   since |-> Len(cacheLog)]]
            /\ UNCHANGED cacheLog
    /\ UNCHANGED <<contractHandles, chainLists, nextId, besideCacheVars>>

\* http.get settles: the list is stored under the apiUrl and returned; a
\* rejection stores nothing
HttpGet(c) ==
    /\ callers[c].fn = "chaininfo"
    /\ callers' = [callers EXCEPT ![c] = NoCaller]
    /\ \E r \in {"ok", "throw"} :
        IF r = "ok"
        THEN /\ nextId' = nextId + 1
             /\ chainLists' = [chainLists EXCEPT
                                  ![callers[c].key[1]] = [id |-> nextId + 1,
                                                       key |-> callers[c].key]]
             /\ cacheLog' = Append(cacheLog, Ended("chaininfo", callers[c].key,
                                                  chainLists'[callers[c].key[1]], TRUE,
                                                  callers[c].since))
        ELSE /\ cacheLog' = Append(cacheLog, Ended("chaininfo", callers[c].key, NoHandle, TRUE,
                                                  callers[c].since))
             /\ UNCHANGED <<nextId, chainLists>>
    /\ UNCHANGED <<contractHandles, besideCacheVars>>

\* clearChainInfoCache
ClearChainInfoCache ==
    /\ CacheOps < MaxCacheOps
    /\ chainLists' = [u \in ApiUrls |-> NoHandle]
    /\ cacheLog' = Append(cacheLog, Ended("clear", <<>>, NoHandle, FALSE, Len(cacheLog)))
    /\ UNCHANGED <<contractHandles, callers, nextId, besideCacheVars>>

CacheInit ==
    /\ Boot
    /\ balance[WalletAddress] = 0
    /\ env = ""
    /\ root = <<>>
    /\ UtilBoot

CacheNext ==
    \/ \E c \in Callers, k \in CacheKeys : GetContractInstanceBegin(c, k)
    \/ \E c \in Callers : ContractAt(c)
    \/ \E c \in Callers, u \in ApiUrls : GetChainInfoBegin(c, u)
    \/ \E c \in Callers : HttpGet(c)
    \/ ClearChainInfoCache

\* calls into the caches, side by side and one after the other
CacheSpec == CacheInit /\ [][CacheNext]_vars

(***************************************************************************)
(* Properties                                                              *)
(***************************************************************************)
\* the value that follows a label in a message, "" when the label is absent
FieldOf(msg, label) ==
    IF \E i \in 1..(Len(msg) - 1) : msg[i] = label
    THEN msg[(CHOOSE i \in 1..(Len(msg) - 1) : msg[i] = label) + 1]
    ELSE ""

SentMethods == {sends[i].method : i \in 1..Len(sends)}

\* crossChainTransfer rejected from its catch block around Step 2
RecoveryRaised == op = "cross" /\ step = 2 /\ pc = "done" /\ outcome.kind = "error"

\* C1: when Step 1's forward call returns a result whose Status is not MINED,
\* crossChainTransfer rejects with a message containing "step 1" and the
\* CrossChainTransfer send is never made in that run.
C1_Step1NotMinedRejects ==
    (op = "cross" /\ step1Result.set /\ step1Result.Status # "MINED") =>
        /\ pc = "done"
        /\ outcome.kind = "error"
        /\ Contains(outcome.msg, "step 1")
        /\ "CrossChainTransfer" \notin SentMethods

C1_Witness ==
    /\ op = "cross" /\ step1Result.set /\ step1Result.Status = "PENDING"
    /\ outcome.kind = "error" /\ Len(sends) = 1

\* C2: when Step 1 returned MINED and the Step 2 send throws, crossChainTransfer
\* rejects with a message that contains "RECOVERY NEEDED" and carries this run's
\* manager address, token contract address, symbol, amount, source chain id,
\* caHash and Step 1 transaction id.
C2_RecoveryMessageEmbedsRun ==
    RecoveryRaised =>
        /\ step1Result.Status = "MINED"
        /\ Contains(outcome.msg, "RECOVERY NEEDED")
        /\ FieldOf(outcome.msg, "managerAddress: ") = WalletAddress
        /\ FieldOf(outcome.msg, " is now on Manager address (") = WalletAddress
        /\ FieldOf(outcome.msg, "tokenContractAddress: ") = params.tokenContractAddress
        /\ FieldOf(outcome.msg, "symbol: ") = params.symbol
        /\ FieldOf(outcome.msg, "amount: ") = params.amount
        /\ FieldOf(outcome.msg, "chainId: ") = params.chainId
        /\ FieldOf(outcome.msg, "caHash: ") = params.caHash
        /\ FieldOf(outcome.msg, "step1TxId: ") = step1Result.transactionId
        /\ step1Result.transactionId # ""
        /\ mode = "real" =>
            /\ chain[1].c.method = "ManagerForwardCall"
            /\ step1Result.transactionId = chain[1].id

C2_Witness ==
    /\ RecoveryRaised /\ mode = "real" /\ params.amount = "1"
    /\ Contains(outcome.msg, "request timeout")

\* C3: the recovery error carries every parameter recoverStuckTransfer requires
\* (tokenContractAddress, symbol, amount, caAddress, chainId): a call built from
\* the error alone passes recoverStuckTransfer's validation.
RecoverParamsFromError(msg) ==
    [NoParams EXCEPT !.tokenContractAddress = FieldOf(msg, "tokenContractAddress: "),
                     !.symbol = FieldOf(msg, "symbol: "),
                     !.amount = FieldOf(msg, "amount: "),
                     !.caAddress = FieldOf(msg, "caAddress: "),
                     !.chainId = FieldOf(msg, "chainId: ")]

C3_RecoveryParamsComplete ==
    RecoveryRaised => ValidateRecover(RecoverParamsFromError(outcome.msg)) = <<>>

\* the transactions of the chain that a given method submitted and that were mined
MinedBy(method) ==
    {i \in 1..Len(chain) : chain[i].c.method = method /\ chain[i].status = "MINED"}

\* the error callSendMethod threw: the node's refusal of the submission
\* ("submission"), getTxResult's FAILED error ("failed"), getTxResult's error
\* after its last attempt ("unconfirmed"), or anything else ("other")
CauseOf(m) ==
    IF Len(m) >= 3 /\ m[1] = "Send call " /\ m[3] = " failed: " THEN "submission"
    ELSE IF Len(m) >= 4 /\ m[1] = "Transaction " /\ m[4] = "FAILED" THEN "failed"
    ELSE IF Len(m) >= 3 /\ m[1] = "Transaction " /\ m[3] = " not confirmed after "
    THEN "unconfirmed"
    ELSE "other"

\* C4: whenever crossChainTransfer raises the recovery error, for every cause of
\* the Step 2 failure (submission error, FAILED status, exhausted polling),
\* Step 1 has moved the funds to the manager and this run's Step 2 transaction
\* never moves them on to the bridge or the recipient.
C4_RecoveryMeansStranded ==
    (/\ RecoveryRaised /\ mode = "real"
     /\ CauseOf(Tail(outcome.msg)) \in {"submission", "failed", "unconfirmed"}) =>
        /\ MinedBy("ManagerForwardCall") # {}
        /\ MinedBy("CrossChainTransfer") = {}
        /\ balance["BRIDGE"] = 0

\* crossChainTransfer ended in Step 1 after handing the transaction to the node
Step1Ended ==
    /\ op = "cross" /\ mode = "real" /\ step = 1 /\ pc = "done"
    /\ outcome.kind = "error" /\ Len(sends) = 1

\* C5 as written: whenever crossChainTransfer ends in Step 1 because Step 1 did
\* not come back MINED (submission error, FAILED status or exhausted polling),
\* no funds have been or will be moved out of the smart wallet by that run.
C5_Step1FailureMovesNothing ==
    (Step1Ended /\ CauseOf(outcome.msg) \in {"submission", "failed", "unconfirmed"}) =>
        /\ balance[CaAddress] = InitialFunds
        /\ MinedBy("ManagerForwardCall") = {}

\* the Step 1 error is the node's refusal of the submission, or getTxResult's
\* error for a transaction it saw FAILED
Step1Refused == CauseOf(outcome.msg) \in {"submission", "failed"}

\* C5 amended: whenever crossChainTransfer ends in Step 1 because the node
\* refused the submission or a poll saw the Step 1 transaction FAILED, no funds
\* have been or will be moved out of the smart wallet by that run.
C5_RefusedStep1MovesNothing ==
    (Step1Ended /\ Step1Refused) =>
        /\ balance[CaAddress] = InitialFunds
        /\ MinedBy("ManagerForwardCall") = {}
        /\ \A i \in 1..Len(chain) : chain[i].status = "FAILED"

C5_Witness ==
    /\ Step1Ended /\ Step1Refused
    /\ Len(chain) = 1 /\ chain[1].status = "FAILED" /\ params.amount = "1"

\* C6: over the real send path, when the Step 1 transaction ends FAILED on the
\* chain the caller receives the step-1 failure error (message containing
\* "step 1") and Step 2 is not attempted.
C6_FailedStep1IsStep1Error ==
    (/\ op = "cross" /\ mode = "real" /\ step = 1 /\ pc = "done"
     /\ Len(chain) = 1 /\ chain[1].status = "FAILED"
     /\ outcome.msg = TxFailedMsg(chain[1].id, chain[1].error)) =>
        /\ Contains(outcome.msg, "step 1")
        /\ "CrossChainTransfer" \notin SentMethods

\* C7: a crossChainTransfer run sends in sequence: first the ManagerForwardCall
\* that forwards Transfer to the manager's own address, and only after that call
\* has returned MINED the direct CrossChainTransfer on the token contract to the
\* final recipient; never both at once, never in the reverse order.
C7_Step1ThenStep2 ==
    op = "cross" =>
        /\ Len(sends) <= 2
        /\ Len(sends) >= 1 =>
            /\ sends[1].method = "ManagerForwardCall"
            /\ sends[1].contract = ChainInfoOf(params.chainId).caContractAddress
            /\ sends[1].innerMethod = "Transfer"
            /\ sends[1].innerContract = params.tokenContractAddress
            /\ sends[1].to = WalletAddress
            /\ sends[1].to # params.to
            /\ sends[1].signer = WalletAddress
        /\ (Len(sends) = 1 /\ pc # "done") => step = 1 \/ (step = 2 /\ step1Result.set)
        /\ Len(sends) = 2 =>
            /\ step = 2
            /\ step1Result.set /\ step1Result.Status = "MINED"
            /\ mode = "real" => chain[1].status = "MINED" /\ chain[1].c = sends[1]
            /\ sends[2].method = "CrossChainTransfer"
            /\ sends[2].contract = params.tokenContractAddress
            /\ sends[2].caHash = "" /\ sends[2].innerMethod = ""
            /\ sends[2].to = params.to
            /\ sends[2].signer = WalletAddress
        /\ step = 2 => step1Result.set /\ step1Result.Status = "MINED"

C7_Witness ==
    /\ op = "cross" /\ mode = "real" /\ Len(sends) = 2 /\ pc = "poll" /\ polls = 2

\* C8: nothing is retried: within one invocation each on-chain submission is
\* sent at most once, a failed Step 2 is not submitted again, no recovery
\* Transfer is issued on the caller's behalf, and only the result query repeats.
C8_NoRetry ==
    /\ \A i, j \in 1..Len(sends) : sends[i].method = sends[j].method => i = j
    /\ op \in {"same", "forward"} => SentMethods \subseteq {"ManagerForwardCall"}
    /\ op = "recover" => SentMethods \subseteq {"Transfer"}
    /\ op = "cross" => SentMethods \subseteq {"ManagerForwardCall", "CrossChainTransfer"}
    /\ Len(chain) <= Len(sends)
    /\ pc = "done" => Len(sends) <= IF op = "cross" THEN 2 ELSE 1

C8_Witness ==
    /\ RecoveryRaised /\ mode = "real" /\ Len(sends) = 2 /\ Len(chain) = 2
    /\ CauseOf(Tail(outcome.msg)) = "failed" /\ chain[2].status = "FAILED"

\* C9: when both steps of crossChainTransfer succeed, the returned transactionId
\* is Step 2's (the CrossChainTransfer send's), not Step 1's, and the returned
\* status is Step 2's.
C9_ReturnsStep2 ==
    (op = "cross" /\ outcome.kind = "ok") =>
        /\ pc = "done" /\ step = 2 /\ Len(sends) = 2
        /\ outcome.transactionId # step1Result.transactionId
        /\ mode = "real" =>
            /\ Len(chain) = 2
            /\ chain[2].c.method = "CrossChainTransfer"
            /\ outcome.transactionId = chain[2].id
            /\ outcome.status = chain[2].status
        /\ mode = "mock" => outcome.transactionId = MockTxIdOf("CrossChainTransfer")

C9_Witness ==
    /\ op = "cross" /\ outcome.kind = "ok" /\ mode = "real" /\ outcome.status = "MINED"

\* C10: recoverStuckTransfer makes exactly one send, a direct Transfer on the
\* token contract signed by the manager, whose recipient is the smart wallet's
\* address (caAddress) and not the manager's; never a ManagerForwardCall.
C10_RecoverSendsToCa ==
    op = "recover" =>
        /\ Len(sends) <= 1
        /\ outcome.kind = "ok" => Len(sends) = 1
        /\ pc \in {"send_method", "poll"} => Len(sends) = IF pc = "poll" THEN 1 ELSE 0
        /\ \A i \in 1..Len(sends) :
            /\ sends[i].method = "Transfer"
            /\ sends[i].caHash = "" /\ sends[i].innerMethod = ""
            /\ sends[i].contract = params.tokenContractAddress
            /\ sends[i].signer = WalletAddress
            /\ sends[i].to = params.caAddress
            /\ sends[i].to # WalletAddress

C10_Witness ==
    /\ op = "recover" /\ mode = "real" /\ outcome.kind = "ok" /\ Len(sends) = 1
    /\ balance[CaAddress] = InitialFunds + 1

\* the positions in requests of the network calls of one kind
RequestsOf(kind) == {i \in 1..Len(requests) : requests[i].kind = kind}

\* C11: sameChainTransfer on valid input dispatches one forward call, whose send
\* is a ManagerForwardCall to the CA contract forwarding the token contract's
\* Transfer with the caller's symbol, to, amount and memo, and it returns the
\* transaction id and Status that this call resolved with, whatever the Status.
C11_SameChainOneForward ==
    op = "same" =>
        /\ Len(sends) <= 1
        /\ Cardinality(RequestsOf("encode")) <= 1
        /\ Len(returns) <= Len(sends)
        /\ \A i \in 1..Len(sends) :
            /\ sends[i].method = "ManagerForwardCall"
            /\ sends[i].contract = ChainInfoOf(params.chainId).caContractAddress
            /\ sends[i].caHash = params.caHash
            /\ sends[i].innerContract = params.tokenContractAddress
            /\ sends[i].innerMethod = "Transfer"
            /\ sends[i].symbol = params.symbol
            /\ sends[i].to = params.to
            /\ sends[i].amount = params.amount
            /\ sends[i].memo = params.memo
        /\ Len(sends) >= 1 => ValidateSameChain(params) = <<>>
        /\ outcome.kind = "ok" <=> Len(returns) = 1
        /\ outcome.kind = "ok" =>
            /\ pc = "done"
            /\ outcome.transactionId = returns[1].transactionId
            /\ outcome.status = returns[1].Status
            /\ mode = "real" =>
                /\ chain[1].c = sends[1]
                /\ outcome.transactionId = chain[1].id
                /\ outcome.status = chain[1].status

C11_Witness ==
    /\ op = "same" /\ mode = "mock" /\ outcome.kind = "ok"
    /\ outcome.status = "FAILED" /\ params.memo = "memo" /\ Len(sends) = 1

\* a managerForwardCall whose args is {}
ArgsEmpty(p) == p.symbol = "" /\ p.to = "" /\ p.amount = "" /\ p.memo = ""

\* the invocation rejected with `${name} is required`
RejectedFor(name) ==
    pc = "done" /\ outcome.kind = "error" /\ outcome.msg = <<name, " is required">>

RejectedForMissingField ==
    /\ pc = "done" /\ outcome.kind = "error"
    /\ Len(outcome.msg) = 2 /\ outcome.msg[2] = " is required"

\* C12: managerForwardCall checks caHash, contractAddress, methodName
\* and args each on its own; when exactly one of them is empty the call fails
\* with a message that names that field.
C12_ValidatesHashContractMethodArgs ==
    (op = "forward" /\ pc = "done" /\ params.chainId \in KnownChains) =>
        /\ (params.caHash = "" /\ params.contractAddress # "" /\ params.methodName # ""
            /\ ~ArgsEmpty(params)) => RejectedFor("caHash")
        /\ (params.caHash # "" /\ params.contractAddress = "" /\ params.methodName # ""
            /\ ~ArgsEmpty(params)) => RejectedFor("contractAddress")
        /\ (params.caHash # "" /\ params.contractAddress # "" /\ params.methodName = ""
            /\ ~ArgsEmpty(params)) => RejectedFor("methodName")
        /\ (params.caHash # "" /\ params.contractAddress # "" /\ params.methodName # ""
            /\ ArgsEmpty(params)) => RejectedFor("args")

\* the invocation was given params with a required field of its operation empty
MissingRequired ==
    \/ /\ op \in {"same", "cross"}
       /\ \/ params.caHash = "" \/ params.tokenContractAddress = "" \/ params.symbol = ""
          \/ params.to = "" \/ params.amount = "" \/ params.chainId = ""
          \/ op = "cross" /\ params.toChainId = ""
    \/ /\ op = "recover"
       /\ \/ params.tokenContractAddress = "" \/ params.symbol = "" \/ params.amount = ""
          \/ params.caAddress = "" \/ params.chainId = ""
    \/ /\ op = "forward"
       /\ \/ params.caHash = "" \/ params.contractAddress = "" \/ params.methodName = ""
          \/ params.chainId = ""

\* the invocation has issued no HTTP request, no chain RPC and no submission
NoNetworkCall ==
    /\ requests = <<>> /\ sends = <<>> /\ chain = <<>> /\ polls = 0
    /\ ~chainInfoCache /\ aelfInstanceCache = {} /\ contractCache = {}

\* C13: sameChainTransfer, crossChainTransfer, recoverStuckTransfer and
\* managerForwardCall reject params with a missing required field at once, and a
\* rejection for a missing field comes before any network call: no HTTP
\* request, no chain RPC, no transaction submission has been issued.
C13_ValidationBeforeNetwork ==
    /\ (pc # "idle" /\ MissingRequired) => RejectedForMissingField /\ NoNetworkCall
    /\ RejectedForMissingField => MissingRequired /\ NoNetworkCall

C13_Witness ==
    /\ op = "cross" /\ RejectedFor("toChainId") /\ params.chainId = "AELF"
    /\ params.amount = "1" /\ requests = <<>>

\* the sends of the invocation that are ManagerForwardCall
ForwardSends == {i \in 1..Len(sends) : sends[i].method = "ManagerForwardCall"}

\* C14: on valid input managerForwardCall first encodes args against the target
\* contract on the chain named by chainId, then submits one send named
\* ManagerForwardCall to that chain's CA contract address at that chain's
\* endpoint, never to the target contract, signed by the wallet it was given.
C14_ForwardEncodesThenSendsToCa ==
    (op \in {"forward", "same", "cross"}) =>
        LET f == ForwardParams
            ci == ChainInfoOf(f.chainId)
        IN  /\ Cardinality(ForwardSends) <= 1
            /\ Cardinality(RequestsOf("encode")) <= 1
            /\ \A e \in RequestsOf("encode") :
                /\ ValidateForward(f) = <<>> /\ f.chainId \in KnownChains
                /\ requests[e].rpc = ci.endPoint
                /\ requests[e].target = f.contractAddress
            /\ \A r \in RequestsOf("contractAt") \cup RequestsOf("send") :
                /\ requests[r].rpc = ci.endPoint
                /\ \E e \in RequestsOf("encode") : e < r
            /\ \A i \in ForwardSends :
                /\ i = 1
                /\ sends[i].rpc = ci.endPoint
                /\ sends[i].contract = ci.caContractAddress
                /\ sends[i].contract # f.contractAddress
                /\ \A c \in KnownChains \ {f.chainId} :
                    /\ sends[i].rpc # ChainInfoOf(c).endPoint
                    /\ sends[i].contract # ChainInfoOf(c).caContractAddress
                /\ sends[i].signer = WalletAddress
                /\ sends[i].caHash = f.caHash
                /\ sends[i].innerContract = f.contractAddress
                /\ sends[i].innerMethod = f.methodName
                /\ sends[i].to = f.to /\ sends[i].symbol = f.symbol
                /\ sends[i].amount = f.amount /\ sends[i].memo = f.memo
            /\ (op = "forward" /\ outcome.kind = "ok") => Cardinality(ForwardSends) = 1

C14_Witness ==
    /\ op = "forward" /\ mode = "real" /\ params.chainId = "tDVV"
    /\ outcome.kind = "ok" /\ Len(sends) = 1
    /\ sends[1].contract = "CA_tDVV" /\ Cardinality(RequestsOf("encode")) = 1

\* a step taken by the invocation itself, not by the chain or the keystore
InvocationStep ==
    <<op, mode, params, pc, step, call, polls, curTx, step1Result, sends, outcome,
      requests, returns>>' #
    <<op, mode, params, pc, step, call, polls, curTx, step1Result, sends, outcome,
      requests, returns>>

RaisedBySend ==
    IF RecoveryRaised /\ Contains(outcome.msg, "\n\n")
    THEN SubSeq(outcome.msg, 2,
                (CHOOSE k \in 1..Len(outcome.msg) : outcome.msg[k] = "\n\n") - 1)
    ELSE outcome.msg

\* C16: getTxResult returns a result only when one of its queries returned
\* status MINED; when a query returns FAILED it raises at once an error that
\* carries the chain's error detail; and after a query has returned MINED or
\* FAILED for a transaction it sends no further status query for it.
C16_PollEndsAtTerminalStatus ==
    mode = "real" =>
        /\ \A i \in 1..Len(returns) :
            /\ returns[i].Status = "MINED"
            /\ [id |-> returns[i].transactionId, status |-> "MINED"] \in observed
        /\ \A o \in observed :
            /\ chain[TxIndex(o.id)].status = o.status
            /\ o.status = "MINED" =>
                \E i \in 1..Len(returns) : returns[i].transactionId = o.id
            /\ o.status = "FAILED" =>
                /\ pc = "done" /\ outcome.kind = "error"
                /\ RaisedBySend = TxFailedMsg(o.id, chain[TxIndex(o.id)].error)
                /\ Contains(outcome.msg, OrElse(chain[TxIndex(o.id)].error, "Unknown error"))
        /\ pc = "poll" => \A o \in observed : o.id # curTx

C16_Witness ==
    /\ mode = "real" /\ op = "cross" /\ step = 2 /\ pc = "done"
    /\ observed = {[id |-> "tx1", status |-> "MINED"], [id |-> "tx2", status |-> "FAILED"]}
    /\ Contains(outcome.msg, "insufficient")

FilesBefore(i) == IF i = 1 THEN [n \in Networks |-> NoFile] ELSE ksLog[i - 1].files

\* the Unlocked-Wallet Slot before the i-th keystore operation
SlotBefore(i) == IF i = 1 THEN NoWallet ELSE ksLog[i - 1].slot

\* the i-th keystore operation was a saveKeystore that succeeded
SavedAt(i) == ksLog[i].op = "save" /\ ksLog[i].ok

\* C18: a saveKeystore with every field given and an allowed network succeeds,
\* and right after a successful saveKeystore for network N getWalletStatus(N)
\* reports exists = true and unlocked = true with the caAddress and caHash that
\* were saved, and the manager address of the saved private key.
C18_SaveThenStatus ==
    \A i \in 1..Len(ksLog) :
        LET p == ksLog[i].params
            st == WalletStatus(ksLog[i].slot, ksLog[i].files, p.network)
        IN  ksLog[i].op = "save" =>
                /\ ksLog[i].ok <=> (ValidateSave(p) = <<>> /\ p.network \in Networks)
                /\ ksLog[i].ok =>
                    /\ st.exists /\ st.unlocked
                    /\ st.caAddress = p.caAddress /\ st.caHash = p.caHash
                    /\ st.managerAddress = AddressOfKey(p.privateKey)
                    /\ st.network = p.network

C18_Witness ==
    /\ Len(ksLog) = 2 /\ SavedAt(1) /\ SavedAt(2)
    /\ ksLog[1].params.network = "testnet" /\ ksLog[2].params.network = "testnet"
    /\ ksLog[1].params.caHash = "hash" /\ ksLog[2].params.caHash = "hash2"
    /\ GetWalletStatus("testnet").caHash = "hash2"

\* C19: lockWallet succeeds from every state and empties the Unlocked-Wallet
\* Slot, a second lock included; afterwards getWalletStatus reports unlocked =
\* false for every network, and every keystore file is as it was, so exists
\* stays true and caAddress and caHash stay readable.
C19_LockClearsSlotKeepsFile ==
    \A i \in 1..Len(ksLog) :
        ksLog[i].op = "lock" =>
            /\ ksLog[i].ok
            /\ ksLog[i].slot = NoWallet
            /\ ksLog[i].files = FilesBefore(i)
            /\ \A n \in Networks :
                LET st == WalletStatus(ksLog[i].slot, ksLog[i].files, n)
                    before == WalletStatus(SlotBefore(i), FilesBefore(i), n)
                IN  /\ ~st.unlocked
                    /\ st.managerAddress = Null
                    /\ st.exists = before.exists
                    /\ st.caAddress = before.caAddress
                    /\ st.caHash = before.caHash
                    /\ (before.exists /\ FilesBefore(i)[n].json) =>
                            st.caAddress # Null /\ st.caHash # Null

C19_Witness ==
    /\ Len(ksLog) = 3 /\ SavedAt(1)
    /\ ksLog[2].op = "lock" /\ ksLog[3].op = "lock"
    /\ ~GetWalletStatus(ksLog[1].params.network).unlocked
    /\ GetWalletStatus(ksLog[1].params.network).exists
    /\ GetWalletStatus(ksLog[1].params.network).caHash = ksLog[1].params.caHash

\* C20: after a successful saveKeystore followed by lockWallet, unlockWallet with
\* the same password and network succeeds, and the Unlocked-Wallet Slot then
\* holds what it held after the save: the same manager address, caHash,
\* caAddress, originChainId and network.
C20_SaveLockUnlockRestores ==
    \A i \in 1..(Len(ksLog) - 2) :
        LET p == ksLog[i].params
            u == ksLog[i + 2]
        IN  (/\ SavedAt(i) /\ ksLog[i + 1].op = "lock" /\ u.op = "unlock"
             /\ u.params.password = p.password /\ u.params.network = p.network) =>
                /\ u.ok
                /\ u.slot.occupied
                /\ u.slot = ksLog[i].slot
                /\ u.slot.address = AddressOfKey(p.privateKey)
                /\ u.slot.caHash = p.caHash
                /\ u.slot.caAddress = p.caAddress
                /\ u.slot.originChainId = OriginOrDefault(p.originChainId)
                /\ u.slot.network = p.network
                /\ u.files = ksLog[i].files

C20_Witness ==
    /\ Len(ksLog) = 3 /\ SavedAt(1) /\ ksLog[2].op = "lock"
    /\ ksLog[3].op = "unlock" /\ ksLog[3].ok
    /\ ksLog[1].params.originChainId = "tDVV" /\ ksLog[1].params.network = "testnet"
    /\ unlockedState = ksLog[1].slot /\ unlockedState.originChainId = "tDVV"

\* the i-th keystore operation was an unlockWallet with a password, for an
\* allowed network
UnlockAt(i) ==
    /\ ksLog[i].op = "unlock"
    /\ ksLog[i].params.password # ""
    /\ ksLog[i].params.network \in Networks

\* C21: unlockWallet for a network whose keystore file does not exist fails with
\* the "No keystore found" error, and unlockWallet with a wrong password against
\* an existing keystore file fails with an error that is not that one and has
\* no "No keystore found" in it.
C21_NotFoundAndWrongPasswordDiffer ==
    \A i \in 1..Len(ksLog) :
        LET n == ksLog[i].params.network
            file == FilesBefore(i)[n]
        IN  UnlockAt(i) =>
                /\ ~file.exists =>
                    /\ ~ksLog[i].ok
                    /\ ksLog[i].msg = NoKeystoreFoundMsg(n)
                    /\ Contains(ksLog[i].msg, "No keystore found")
                /\ (file.exists /\ file.json
                        /\ ~KeystoreOpens(file.keystore, ksLog[i].params.password)) =>
                    /\ ~ksLog[i].ok
                    /\ ksLog[i].msg # NoKeystoreFoundMsg(n)
                    /\ ~Contains(ksLog[i].msg, "No keystore found")

C21_Witness ==
    /\ Len(ksLog) = 3
    /\ SavedAt(1)
    /\ UnlockAt(2) /\ ksLog[2].params.network = ksLog[1].params.network
    /\ ksLog[2].params.password # ksLog[1].params.password /\ ~ksLog[2].ok
    /\ UnlockAt(3) /\ ksLog[3].params.network # ksLog[1].params.network
    /\ ~ksLog[3].ok /\ Contains(ksLog[3].msg, "No keystore found")

\* C22: an unlockWallet that fails, whatever the reason (no password, network
\* not allowed, no file, file that does not parse, wrong password), leaves the
\* Unlocked-Wallet Slot and every keystore file as they were before the call.
C22_FailedUnlockChangesNothing ==
    \A i \in 1..Len(ksLog) :
        (ksLog[i].op = "unlock" /\ ~ksLog[i].ok) =>
            /\ ksLog[i].slot = SlotBefore(i)
            /\ ksLog[i].files = FilesBefore(i)

C22_Witness ==
    /\ Len(ksLog) = 3
    /\ SavedAt(1) /\ ksLog[1].params.network = "mainnet"
    /\ ksLog[2].op = "unlock" /\ ~ksLog[2].ok /\ ksLog[2].msg \in WrongPasswordMsgs
    /\ ksLog[2].slot.occupied
    /\ ksLog[3].op = "unlock" /\ ~ksLog[3].ok /\ ksLog[3].params.network = "testnet"
    /\ unlockedState = SavedState(ksLog[1].params)

\* every field of the slot is the field of one and the same saved wallet
IsWalletOf(slot, id) ==
    /\ slot.privateKey = id.privateKey
    /\ slot.address = AddressOfKey(id.privateKey)
    /\ slot.caHash = id.caHash
    /\ slot.caAddress = id.caAddress
    /\ slot.originChainId = OriginOrDefault(id.originChainId)

\* the i-th keystore operation was a saveKeystore or an unlockWallet that succeeded
SlotFilledAt(i) == ksLog[i].op \in {"save", "unlock"} /\ ksLog[i].ok

\* C23: at most one wallet is unlocked: getWalletStatus reports unlocked for at
\* most one network, an occupied slot holds the fields of one saved wallet and
\* never fields of two, and after a successful saveKeystore or unlockWallet the
\* slot holds the wallet of that call (the saved parameters, or the content of
\* the file that was unlocked) under the network of that call, whatever wallet
\* of whatever network it held before.
C23_OneWalletUnlocked ==
    /\ Cardinality({n \in Networks : GetWalletStatus(n).unlocked}) <= 1
    /\ unlockedState.occupied => \E id \in Identities : IsWalletOf(unlockedState, id)
    /\ \A i \in 1..Len(ksLog) :
        LET p == ksLog[i].params
            slot == ksLog[i].slot
            file == FilesBefore(i)[p.network]
        IN  SlotFilledAt(i) =>
                /\ slot.occupied /\ slot.network = p.network
                /\ \E id \in Identities : IsWalletOf(slot, id)
                /\ ksLog[i].op = "save" => IsWalletOf(slot, p)
                /\ ksLog[i].op = "unlock" =>
                    /\ slot.privateKey = file.keystore.privateKey
                    /\ slot.address = file.keystore.address
                    /\ slot.caHash = file.caHash
                    /\ slot.caAddress = file.caAddress
                    /\ slot.originChainId = file.originChainId

C23_Witness ==
    /\ Len(ksLog) = 3
    /\ ksLog[3].op = "unlock" /\ ksLog[3].ok
    /\ SlotBefore(3).occupied
    /\ SlotBefore(3).network # ksLog[3].params.network
    /\ SlotBefore(3).privateKey # unlockedState.privateKey
    /\ unlockedState.network = ksLog[3].params.network

\* what a reader of the file learns without the password: the CA metadata, the
\* address in the keystore object and, were the object not sealed, the rest of it
PlainText(file) ==
    {file.caHash, file.caAddress, file.originChainId, file.keystore.address}
        \cup (IF file.keystore.sealedWith = ""
              THEN {file.keystore.privateKey, file.keystore.mnemonic} ELSE {})

\* the private keys and mnemonics of the wallets
Secrets == UNION {{id.privateKey, id.mnemonic} : id \in Identities}

\* C25: no keystore file that saveKeystore wrote lets its reader learn a private
\* key or a mnemonic without the password: the key and the mnemonic are in the
\* file only under the seal of the password, beside caHash, caAddress and
\* originChainId; this holds in particular for the key held in the slot.
C25_NoPlaintextSecretOnDisk ==
    \A n \in Networks :
        (files[n].exists /\ files[n].json) =>
            /\ files[n].keystore.sealedWith # ""
            /\ PlainText(files[n]) \cap Secrets = {}
            /\ unlockedState.occupied => unlockedState.privateKey \notin PlainText(files[n])
            /\ \E id \in Identities :
                /\ files[n].caHash = id.caHash
                /\ files[n].caAddress = id.caAddress
                /\ files[n].originChainId = OriginOrDefault(id.originChainId)
                /\ files[n].keystore.privateKey = id.privateKey
                /\ files[n].keystore.mnemonic = id.mnemonic

C25_Witness ==
    /\ unlockedState.occupied
    /\ \A n \in Networks : files[n].exists /\ files[n].json
    /\ files[unlockedState.network].keystore.privateKey = unlockedState.privateKey

\* C27: after every successful saveKeystore the keystore file of the network
\* has mode 0600, newly created or overwritten.
C27_SavedFileIsOwnerOnly ==
    \A i \in 1..Len(ksLog) :
        SavedAt(i) => ksLog[i].files[ksLog[i].params.network].mode = FILE_MODE

\* the fields saveKeystore requires that the parameters lack
MissingToSave(p) == {f \in RequiredToSave : p[f] = ""}

\* C28: a saveKeystore that lacks one of password, privateKey, mnemonic,
\* caHash, caAddress and network fails with "<field> is required" for that
\* field (for one of the missing fields when several are missing), and it leaves
\* every keystore file and the Unlocked-Wallet Slot as they were.
C28_SaveRequiresEachField ==
    \A i \in 1..Len(ksLog) :
        LET p == ksLog[i].params
        IN  (ksLog[i].op = "save" /\ MissingToSave(p) # {}) =>
                /\ ~ksLog[i].ok
                /\ \E f \in MissingToSave(p) : ksLog[i].msg = Required(f)
                /\ ksLog[i].files = FilesBefore(i)
                /\ ksLog[i].slot = SlotBefore(i)

C28_Witness ==
    /\ Len(ksLog) = 3
    /\ SavedAt(1)
    /\ ksLog[2].op = "save" /\ MissingToSave(ksLog[2].params) = {"mnemonic"}
    /\ ksLog[3].op = "save" /\ MissingToSave(ksLog[3].params) = {"network"}
    /\ unlockedState = SavedState(ksLog[1].params)

\* C29: getWalletStatus for a network whose keystore file exists but does not
\* parse returns, without throwing, exists = true with caAddress and caHash null.
C29_StatusToleratesMalformedFile ==
    \A i \in 1..Len(ksLog) :
        LET n == ksLog[i].params.network
            st == WalletStatus(ksLog[i].slot, ksLog[i].files, n)
        IN  (ksLog[i].op = "status" /\ n \in Networks) =>
                /\ ksLog[i].ok
                /\ (ksLog[i].files[n].exists /\ ~ksLog[i].files[n].json) =>
                    /\ st.exists
                    /\ st.caAddress = Null
                    /\ st.caHash = Null

C29_Witness ==
    /\ Len(ksLog) = 2
    /\ ksLog[1].op = "fswrite"
    /\ ksLog[2].op = "status" /\ ksLog[2].ok
    /\ ksLog[2].params.network = ksLog[1].params.network

\* what the entries declare for the method, in the order the loops visit them:
\* each entry of root.nestedArray, followed by its nested entries
RECURSIVE Declarations(_)
Declarations(nestedArray) ==
    IF nestedArray = <<>> THEN <<>>
    ELSE <<Head(nestedArray).input>>
            \o [j \in 1..Len(Head(nestedArray).nested) |-> Head(nestedArray).nested[j].input]
            \o Declarations(Tail(nestedArray))

\* the first declaration in that order, Null when there is none
FirstDeclared(ds) ==
    IF \A k \in 1..Len(ds) : ds[k] = "" THEN Null
    ELSE ds[CHOOSE k \in 1..Len(ds) : ds[k] # "" /\ \A l \in 1..(k - 1) : ds[l] = ""]

\* C30: the input type the encoder uses is that of the first entry, in
\* traversal order, that declares the method; a later declaration never
\* replaces it.
C30_FirstMatchWins ==
    inputType # Unset => inputType = FirstDeclared(Declarations(root))

\* a handler of a write tool runs up to its first await
ToolInvoked == pc = "idle" /\ pc' # "idle"

\* C24: the handler of a write tool takes the wallet of the Unlocked-Wallet
\* Slot when the slot is occupied, else the wallet of PORTKEY_PRIVATE_KEY when
\* that is set, and else fails at once, with no network call made and no
\* transaction sent, with an error that names portkey_unlock and
\* PORTKEY_PRIVATE_KEY; every transaction of the invocation is signed by the
\* wallet so taken.
C24_SignerByPrecedence ==
    [][/\ ToolInvoked =>
            IF unlockedState.occupied
            THEN /\ wallet'.privateKey = unlockedState.privateKey
                 /\ wallet'.address = unlockedState.address
            ELSE IF env # ""
            THEN /\ wallet'.privateKey = env
                 /\ wallet'.address = AddressOfKey(env)
            ELSE /\ wallet' = NoSigner
                 /\ pc' = "done"
                 /\ outcome'.kind = "error"
                 /\ Contains(outcome'.msg, "portkey_unlock")
                 /\ Contains(outcome'.msg, "PORTKEY_PRIVATE_KEY")
                 /\ requests' = <<>> /\ sends' = <<>> /\ chain' = <<>>
       /\ \A i \in 1..Len(sends') : sends'[i].signer = wallet'.address
       /\ wallet' = NoSigner => requests' = <<>> /\ sends' = <<>>]_vars

C24_Witness ==
    /\ pc = "done" /\ outcome.kind = "ok"
    /\ env = "pk2"
    /\ wallet = GetWalletByPrivateKey("pk1")
    /\ Len(sends) >= 1
    /\ unlockedState.occupied

\* the latest keystore operation was a lockWallet that emptied an occupied slot
JustLocked ==
    /\ Len(ksLog) > 0
    /\ ksLog[Len(ksLog)].op = "lock"
    /\ SlotBefore(Len(ksLog)).occupied

\* the wallet that lockWallet removed from the slot
LockedWallet == SlotBefore(Len(ksLog))

\* C26: once lockWallet has returned, the slot is empty, no cached contract
\* handle is bound to the wallet that was unlocked, no invocation in flight
\* holds that wallet, and no further transaction is signed with it.
C26_LockClearsKeyEverywhere ==
    /\ [](JustLocked =>
            /\ ~unlockedState.occupied
            /\ \A k \in contractCache : k[3] # LockedWallet.address
            /\ pc \notin {"idle", "done"} => wallet.privateKey # LockedWallet.privateKey)
    /\ [][(JustLocked /\ Len(sends') > Len(sends)) =>
            sends'[Len(sends')].signer # LockedWallet.address]_vars

\* the examples the unit tests pin down: guardian count and approvals needed
ApprovalExamples == {<<1, 1>>, <<2, 2>>, <<3, 3>>, <<4, 3>>, <<5, 4>>, <<6, 4>>, <<7, 5>>, <<10, 7>>}

\* C32: getApprovalCount(n) is n when n <= 3, and beyond that the whole part of
\* 3n/5 plus one (a is that number iff 5(a-1) <= 3n < 5a); so 3, 4, 5, 6, 7, 10
\* guardians need 3, 3, 4, 4, 5, 7 approvals.
C32_ApprovalThreshold ==
    approvalCount # <<>> =>
        /\ nGuardians <= 3 => approvalCount[1] = nGuardians
        /\ nGuardians > 3 =>
            /\ 5 * (approvalCount[1] - 1) <= 3 * nGuardians
            /\ 3 * nGuardians < 5 * approvalCount[1]
        /\ \A e \in ApprovalExamples : nGuardians = e[1] => approvalCount[1] = e[2]

C32_Witness ==
    /\ nGuardians = 10
    /\ approvalCount = <<7>>

\* the canonical identifiers, spelled out
CanonicalSpellings == {Spelling(id) : id \in CanonicalChainIds}

\* the conversion and its reverse agree on the canonical identifiers, and no two
\* of them share a number
CanonicalRoundTrip ==
    /\ (idString \in CanonicalSpellings /\ chainIdBack # <<>>) =>
            chainIdBack[1] = idString
    /\ \A a, b \in CanonicalChainIds : a # b => ChainIdToNum(a) # ChainIdToNum(b)

\* C33 as stated: there are four canonical chain identifiers in use, each comes
\* back from toIdentifier(toNumeric(id)), and distinct ones have distinct numbers.
C33_FourIdsRoundTrip ==
    /\ Cardinality(CanonicalChainIds) = 4
    /\ CanonicalRoundTrip

\* C33 amended: each of the three canonical chain identifiers in use (AELF,
\* tDVV, tDVW) comes back from toIdentifier(toNumeric(id)), and distinct ones
\* have distinct numbers.
C33_CanonicalIdsRoundTrip ==
    /\ Cardinality(CanonicalChainIds) = 3
    /\ CanonicalRoundTrip

C33_Witness ==
    /\ idString = Spelling("tDVW")
    /\ chainIdNum = <<1931928>>
    /\ chainIdBack = <<idString>>

\* some service or namespace of the schema tree declares the method
DeclaredSomewhere(nestedArray) ==
    \E i \in 1..Len(nestedArray) :
        \/ nestedArray[i].input # ""
        \/ \E j \in 1..Len(nestedArray[i].nested) :
            \/ nestedArray[i].nested[j].input # ""
            \/ nestedArray[i].nested[j].below

\* C31: the encoder fails for want of the method's input type exactly when no
\* service or nested namespace of the schema tree, at any depth, declares the
\* method.
C31_NotFoundIffUndeclared ==
    inputType # Unset => (inputType = Null <=> ~DeclaredSomewhere(root))

\* the calls of fn that ended, by their place in cacheLog
EndedCalls(fn) == {i \in 1..Len(cacheLog) : cacheLog[i].fn = fn}

\* the calls of fn that returned a value
ReturnedCalls(fn) == {i \in EndedCalls(fn) : cacheLog[i].ret # NoHandle}

\* call j began before call i ended, and ended after it
Overlapped(i, j) == i < j /\ cacheLog[j].since < i

\* C34: getContractInstance is memoized by (rpcEndpoint, contractAddress,
\* signerAddress): the calls with one key all return the same handle, and a
\* call never returns a handle created for another signer.
C34_MemoizedByKey ==
    /\ \A i, j \in ReturnedCalls("contract") :
            cacheLog[i].key = cacheLog[j].key => cacheLog[i].ret = cacheLog[j].ret
    /\ \A i \in ReturnedCalls("contract") : cacheLog[i].ret.key[3] = cacheLog[i].key[3]

\* C40: of two getContractInstance calls with one key that overlap in time, at
\* most one creates the handle, and both return the same handle.
C40_OverlappingCallsShareHandle ==
    \A i, j \in ReturnedCalls("contract") :
        (cacheLog[i].key = cacheLog[j].key /\ Overlapped(i, j)) =>
            /\ ~(cacheLog[i].made /\ cacheLog[j].made)
            /\ cacheLog[i].ret = cacheLog[j].ret

\* the cache was cleared at some place of cacheLog from lo to hi
ClearedIn(lo, hi) == \E k \in lo..hi : cacheLog[k].fn = "clear"

\* call j of getChainInfo is the first for its apiUrl to begin after the clear
\* at place i
FirstAfterClear(i, j) ==
    /\ cacheLog[i].fn = "clear"
    /\ cacheLog[j].since >= i
    /\ ~ClearedIn(i + 1, cacheLog[j].since)
    /\ \A k \in EndedCalls("chaininfo") \ {j} :
            cacheLog[k].key = cacheLog[j].key =>
                ~(cacheLog[k].since >= i /\ k < j)

\* C35: once getChainInfo has returned the list for an apiUrl, a call for that
\* apiUrl that begins before the next clearChainInfoCache returns the cached
\* list and requests nothing; the first call to begin after
\* clearChainInfoCache requests the list again.
C35_CachedUntilCleared ==
    /\ \A i \in ReturnedCalls("chaininfo"), j \in EndedCalls("chaininfo") :
            (/\ cacheLog[j].key = cacheLog[i].key
             /\ cacheLog[j].since >= i
             /\ ~ClearedIn(i + 1, cacheLog[j].since)) =>
                /\ ~cacheLog[j].made
                /\ cacheLog[j].ret # NoHandle
    /\ \A i \in EndedCalls("clear"), j \in EndedCalls("chaininfo") :
            FirstAfterClear(i, j) => cacheLog[j].made

\* getTxResult ends with an error before its last query
PollAbortsEarly ==
    /\ pc = "poll"
    /\ pc' # "poll"
    /\ returns' = returns
    /\ polls + 1 < TX_RESULT_MAX_RETRIES

\* C36: a status query that throws never ends the poll; getTxResult ends with
\* an error before its last query only when a query returned status FAILED for
\* the transaction.
C36_QueryErrorNeverAborts ==
    [][PollAbortsEarly =>
        /\ chain[TxIndex(curTx)].status = "FAILED"
        /\ [id |-> curTx, status |-> "FAILED"] \in observed']_vars

\* C37: callSendMethod resolves only with a result whose Status is MINED, so
\* sameChainTransfer, recoverStuckTransfer and managerForwardCall, which pass
\* that status on, either throw or return status MINED.
C37_SendReturnsOnlyMined ==
    mode = "real" =>
        /\ \A i \in 1..Len(returns) : returns[i].Status = "MINED"
        /\ (op \in {"same", "recover", "forward"} /\ pc = "done") =>
            \/ outcome.kind = "error"
            \/ /\ outcome.kind = "ok"
               /\ outcome.status = "MINED"
               /\ Len(returns) = 1
               /\ outcome.transactionId = returns[1].transactionId

C37_Witness ==
    /\ mode = "real" /\ op = "recover" /\ pc = "done"
    /\ outcome.kind = "ok" /\ outcome.status = "MINED"
    /\ Len(returns) = 1 /\ returns[1].Status = "MINED"

\* C38: a write tool requested for a network signs with the keystore wallet
\* only when the slot holds a wallet unlocked for that network; when
\* getWalletStatus of that network says unlocked is false and no environment
\* key is set, the tool fails with the wallet-not-available error and submits
\* nothing.
C38_SignsOnlyForUnlockedNetwork ==
    [][(ToolInvoked /\ ~GetWalletStatus(toolNetwork).unlocked /\ env = "") =>
        /\ wallet' = NoSigner
        /\ pc' = "done"
        /\ outcome'.kind = "error"
        /\ outcome'.msg = NoWalletAvailableMsg
        /\ sends' = <<>>]_vars

\* C39: in a crossChainTransfer the recipient of the Step 1 Transfer is the
\* address of the wallet that signs Step 2, whatever happens to the
\* Unlocked-Wallet Slot while the transfer runs.
C39_Step1RecipientSignsStep2 ==
    op = "cross" =>
        /\ Len(sends) >= 1 =>
            /\ sends[1].innerMethod = "Transfer"
            /\ sends[1].to = wallet.address
            /\ sends[1].signer = wallet.address
        /\ Len(sends) >= 2 =>
            /\ sends[2].method = "CrossChainTransfer"
            /\ sends[2].signer = sends[1].to
        /\ Len(sends) <= 2

\* Step 2 was signed after another wallet had taken the slot
C39_Witness ==
    /\ op = "cross" /\ Len(sends) = 2
    /\ sends[2].signer = WalletAddress
    /\ unlockedState.occupied /\ unlockedState.address = SecondWalletAddress
    /\ \E i \in 1..Len(ksLog) : ksLog[i].op = "lock"

====
